---- MODULE Spec2Model ----
(***************************************************************************)
(* Model of the time-series preparation and model-selection core of        *)
(* fyp_analysis: PreprocessPipeline (fit / transform / inverse_transform), *)
(* the walk-forward evaluator, the VAR grid search and the selection of    *)
(* exogenous regressors from the Granger matrix.                           *)
(*                                                                         *)
(* Representation.                                                         *)
(*  - A date is the number of a quarter start (0, 1, 2, ...).              *)
(*  - A column name is the sequence of its dot-separated parts:            *)
(*    "D.Ln.x" is <<"D", "Ln", "x">>.                                      *)
(*  - A Series is a function from the dates that hold a value to an        *)
(*    integer; a date of the index outside its DOMAIN holds NaN.           *)
(*  - A table (DataFrame) is [cols, index, val]: the column names in       *)
(*    order, the set of row dates, and one Series per column.              *)
(*  - Arithmetic is exact: log is taken to base 2 on powers of two and     *)
(*    the division by norm is applied to multiples of norm.                *)
(***************************************************************************)
EXTENDS Integers, Sequences, FiniteSets, TLC

VARIABLES
    guide_,     \* PreprocessPipeline.guide_: variable name -> guide entry
    hasX0,      \* hasattr(self, "X0_")
    X0_,        \* PreprocessPipeline.X0_: the baseline table
    fitCalled,  \* history: fit has been called on this pipeline
    op,         \* the last operation called
    arg,        \* the table passed to the last operation
    src,        \* for inverse_transform: the table whose transform is arg;
                \* for fit_var_model: the scaled history with the scaled
                \* forecast under it
    ret,        \* what the last operation returned or raised
    tt,         \* the running call of test_train_var_model: its arguments
                \* and local variables
    grangers,   \* the Granger causation matrix
    cbo_columns,\* the allow-list of exogenous variables
    alpha,      \* the significance level, in units of 0.0001
    hash_order, \* the order in which this process iterates a set of names
    exog_call,  \* the last call of get_possible_exog_variables: its endog
                \* columns and what it returned or raised
    inp,        \* the arguments of the grid search that is run
    mape_of,    \* what test_train_var_model gave for the candidates
                \* evaluated so far (it is a function of the candidate)
    rpm,        \* run_possible_models: its position and local variables
    gs,         \* grid_search_var_model: its position and local variables
    gret,       \* what the caller of the grid search received
    first_ret,  \* what the caller received from the first run
    runs,       \* the number of runs started on these arguments
    gc_tests,   \* what grangercausalitytests gives for each pair of columns
    gc_call,    \* the last call of grangers_causation_matrix: its arguments
                \* and the matrix it returned
    sg_data,    \* the feature table given to get_stationary_guide
    sg_call,    \* the last call of get_stationary_guide: its arguments,
                \* what adfuller answers and what the call returned or raised
    agg_call,   \* the last call of aggregate_to_fiscal_year: its arguments
                \* and what it returned or raised
    avg_fits,   \* the ranked fits given to get_avg_forecast_from_fits, each
                \* with what fit_var_model gives for its parameters
    avg_call,   \* the last call of get_avg_forecast_from_fits: max_fits and
                \* what it returned or raised
    dl,         \* the differencing loop of get_stationary_guide for one
                \* column, pass by pass: its position and local variables
    lookup,     \* the last lookup of columns by name: the column labels
                \* as text, the names asked for and what was returned
    fq_call     \* get_all_tax_bases: the rows of fiscal quarters, their
                \* dates and what aggregate_to_fiscal_year makes of them

pipeVars == <<guide_, hasX0, X0_, fitCalled, op, arg, src, ret>>
evalVars == <<tt>>
exogVars == <<grangers, cbo_columns, alpha, hash_order, exog_call>>
gridVars == <<inp, mape_of, rpm, gs, gret, first_ret, runs>>
grangerVars == <<gc_tests, gc_call>>
guideVars == <<sg_data, sg_call>>
aggVars == <<agg_call, avg_fits, avg_call>>
loopVars == <<dl>>
nameVars == <<lookup>>
fiscalVars == <<fq_call>>
moreVars == <<grangerVars, guideVars, aggVars, loopVars, nameVars, fiscalVars>>

----------------------------------------------------------------------------
(* Bounds of the model *)

MaxDate == 5        \* the history holds the quarters 0..MaxDate
MaxLo == 1          \* a table may start at quarter 0..MaxLo
MaxNdiffs == 2      \* guide entries have ndiffs in 1..MaxNdiffs

----------------------------------------------------------------------------
(* Basic helpers *)

Min(S) == CHOOSE x \in S : \A y \in S : x <= y
Max(S) == CHOOSE x \in S : \A y \in S : x >= y
Last(s) == s[Len(s)]

\* The empty Series.
NoSeries == [d \in {} |-> 0]

NoTable == [cols |-> <<>>, index |-> {}, val |-> <<>>]

\* Position of name c in the column list of table T (0 when absent).
ColPos(T, c) ==
    IF \E i \in 1..Len(T.cols) : T.cols[i] = c
    THEN CHOOSE i \in 1..Len(T.cols) : T.cols[i] = c
    ELSE 0

HasCol(T, c) == \E i \in 1..Len(T.cols) : T.cols[i] = c

Contiguous(S) == S = {} \/ S = Min(S)..Max(S)

----------------------------------------------------------------------------
(* Results of a call *)

Returned(T) == [kind |-> "table", error |-> "", table |-> T]
Raised(e) == [kind |-> "error", error |-> e, table |-> NoTable]
ReturnedSelf == [kind |-> "self", error |-> "", table |-> NoTable]
NoResult == [kind |-> "none", error |-> "", table |-> NoTable]

----------------------------------------------------------------------------
(* The guide (get_stationary_guide's output) and the data of the run *)

ColX == <<"x">>
ColY == <<"y">>
ColZ == <<"z">>      \* a column the guide does not know

\* The entries get_stationary_guide can produce: norm is 1 for a loggable
\* column and a power of ten otherwise; periods is 4 only for the
\* year-over-year tax bases, whose name contains "Base" and which are
\* therefore differenced once.
GuideEntries ==
    { e \in [loggable : BOOLEAN, norm : {1, 10}, ndiffs : 1..MaxNdiffs,
             periods : {1, 4}] :
        /\ e.loggable => e.norm = 1
        /\ ~e.loggable => e.norm = 10
        /\ e.periods = 4 => e.ndiffs = 1 }

\* The scaled history of each variable (log2 of the value, or value/norm).
ScaledHistory(c) ==
    IF c = ColX THEN <<3, 1, 4, 1, 5, 9, 2, 6, 5, 3>>
    ELSE IF c = ColY THEN <<2, 7, 1, 8, 2, 8, 1, 8, 3, 8>>
    ELSE <<1, 4, 1, 4, 2, 1, 3, 5, 6, 2>>

Pow2(k) == 2 ^ k

\* The unscaled value of variable c at date d: positive for a loggable
\* variable, and of either sign for the others.
RawValue(g, c, d) ==
    LET s == ScaledHistory(c)[d + 1]
    IN IF c \in DOMAIN g /\ g[c].loggable THEN Pow2(s)
       ELSE IF c \in DOMAIN g THEN g[c].norm * (s - 3)
       ELSE s

----------------------------------------------------------------------------
(* The tables the callers pass: windows of the history *)

HoleDate == 2       \* the date of the missing value, in tables that have one

\* The windows lo..hi of the history: every prefix window and the later
\* windows that run to the last date.
Windows ==
    {<<0, hi>> : hi \in 0..MaxDate} \cup {<<lo, MaxDate>> : lo \in 1..MaxLo}

\* hole = "none": no value is missing; "cell": the first column holds NaN at
\* HoleDate; "row": the table has no row dated HoleDate.
Holes == {"none", "cell", "row"}

RawTable(g, cols, lo, hi, hole) ==
    LET idx == IF hole = "row" THEN (lo..hi) \ {HoleDate} ELSE lo..hi
    IN [cols |-> cols,
        index |-> idx,
        val |-> [i \in 1..Len(cols) |->
                    [d \in (IF hole = "cell" /\ i = 1
                            THEN idx \ {HoleDate} ELSE idx) |->
                        RawValue(g, cols[i], d)]]]

\* The tables of the run: the two known columns over every window; the
\* windows that run to the last date also with a missing value; the whole
\* history of x alone; and the whole history with a column the guide does
\* not know.
RawTables(g) ==
    {RawTable(g, <<ColX, ColY>>, w[1], w[2], "none") : w \in Windows}
    \cup {RawTable(g, <<ColX, ColY>>, lo, MaxDate, hole) :
             lo \in 0..MaxLo, hole \in Holes}
    \cup {RawTable(g, <<ColX>>, 0, MaxDate, "none"),
          RawTable(g, <<ColX, ColZ>>, 0, MaxDate, "none")}

----------------------------------------------------------------------------
(* pandas operations used by the pipeline *)

\* DataFrame.asfreq("QS"): reindex to every quarter start from the first to
\* the last date; the new rows hold NaN. An empty table stays empty.
asfreq(T) ==
    [T EXCEPT !.index = IF T.index = {} THEN {} ELSE Min(T.index)..Max(T.index)]

\* The date p positions before d in index idx (pandas shifts by position).
PosOf(idx, d) == Cardinality({e \in idx : e < d})
HasShifted(idx, d, p) == PosOf(idx, d) >= p
Shifted(idx, d, p) ==
    IF Contiguous(idx) THEN d - p
    ELSE CHOOSE e \in idx : PosOf(idx, e) = PosOf(idx, d) - p

\* Series.diff(periods=p) over index idx: value minus the value p rows
\* before; NaN when either is NaN or there is no such row.
diff(idx, f, p) ==
    [d \in {e \in DOMAIN f : HasShifted(idx, e, p)
                              /\ Shifted(idx, e, p) \in DOMAIN f} |->
        f[d] - f[Shifted(idx, d, p)]]

RECURSIVE diffN(_, _, _, _)
diffN(idx, f, p, n) ==
    IF n = 0 THEN f ELSE diffN(idx, diff(idx, f, p), p, n - 1)

\* np.log on the powers of two, to base 2. The fraction 2^k with k < 0 is
\* written as the negative integer k (the values of a loggable column are
\* positive, so the negative integers are free to name the fractions).
log(v) == IF v < 0 THEN v ELSE CHOOSE k \in 0..30 : Pow2(k) = v
exp(k) == IF k < 0 THEN k ELSE Pow2(k)

Restrict(f, S) == [d \in (DOMAIN f) \cap S |-> f[d]]
Put(f, d, v) == [e \in (DOMAIN f) \cup {d} |-> IF e = d THEN v ELSE f[e]]
Del(f, d) == [e \in (DOMAIN f) \ {d} |-> f[e]]

\* The table T with its rows cut down to the dates of idx.
Rows(T, idx) ==
    [cols |-> T.cols,
     index |-> T.index \cap idx,
     val |-> [i \in 1..Len(T.cols) |-> Restrict(T.val[i], idx)]]

\* DataFrame.dropna(how="all"): drop the rows that hold NaN in every column.
dropna_all(T) ==
    Rows(T, {d \in T.index : \E i \in 1..Len(T.cols) : d \in DOMAIN T.val[i]})

\* DataFrame.dropna(): drop the rows that hold NaN in any column.
dropna(T) ==
    Rows(T, {d \in T.index : \A i \in 1..Len(T.cols) : d \in DOMAIN T.val[i]})

----------------------------------------------------------------------------
(* PreprocessPipeline *)

\* PreprocessPipeline.__init__: the sorted variables of the guide.
columns_(g) == DOMAIN g

\* The scaling of one value: the log of a loggable column, value / norm of
\* the others.
Scale(e, v) == IF e.loggable THEN log(v) ELSE v \div e.norm

RECURSIVE Prefixed(_, _, _)
Prefixed(tok, n, name) ==
    IF n = 0 THEN name ELSE Prefixed(tok, n - 1, <<tok>> \o name)

\* The name transform gives a column: "Ln." when logged, then one "D." for
\* each difference.
ScaledName(e, c) ==
    Prefixed("D", e.ndiffs, IF e.loggable THEN <<"Ln">> \o c ELSE c)

\* The body of PreprocessPipeline.transform, after the fitted check.
ScaleAndDiff(g, X) ==
    LET out == asfreq(X)
        n == Len(out.cols)
        feature(i) ==
            LET e == g[out.cols[i]]
                scaled == [d \in DOMAIN out.val[i] |-> Scale(e, out.val[i][d])]
            IN diffN(out.index, scaled, e.periods, e.ndiffs)
    IN IF \E i \in 1..n : out.cols[i] \notin DOMAIN g
       THEN Raised("ValueError: truth value of an empty guide row")
       ELSE Returned(dropna(
                [cols |-> [i \in 1..n |-> ScaledName(g[out.cols[i]], out.cols[i])],
                 index |-> out.index,
                 val |-> [i \in 1..n |-> feature(i)]]))

\* PreprocessPipeline.transform
transform(fitted, g, X) ==
    IF ~fitted THEN Raised("NotFittedError") ELSE ScaleAndDiff(g, X)

\* PreprocessPipeline.fit: the baseline it stores, and what it returns.
fit_X0(X) == asfreq(X)
\* A fit that accepts every column.
fit_ret_any_column(g, X) == ReturnedSelf

fit_ret(g, X) ==
    IF \A i \in 1..Len(X.cols) : X.cols[i] \in columns_(g)
    THEN ReturnedSelf
    ELSE Raised("ValueError: There are unknown columns in input data")

\* The loop "for dt in M.loc[start_date:].index" of inverse_transform: in
\* date order, add to each value the (already rebuilt) value periods
\* quarters before it.
RECURSIVE CumulativeWalk(_, _, _)
CumulativeWalk(cur, rem, p) ==
    IF rem = {} THEN cur
    ELSE LET dt == Min(rem)
             new == IF dt \in DOMAIN cur /\ (dt - p) \in DOMAIN cur
                    THEN Put(cur, dt, cur[dt] + cur[dt - p])
                    ELSE Del(cur, dt)
         IN CumulativeWalk(new, rem \ {dt}, p)

Failed(e) == [error |-> e, val |-> NoSeries]
Rebuilt(f) == [error |-> "", val |-> f]

\* An overlap check that only looks for an empty input column.
NoOverlap_input_only(Midx, orig, f) == DOMAIN f = {}

\* The overlap check of inverse_transform: no row of M holds both a
\* baseline value and an input value.
NoOverlap(Midx, orig, f) ==
    {d \in Midx : d \in DOMAIN orig /\ d \in DOMAIN f} = {}

\* The "while ndiffs > 0" loop of inverse_transform for one column.
\*   e: the guide entry; base, f0: index and scaled values of the baseline
\*   column; fidx, f: index and values of the input column; Xindex: the
\*   index of the input table; k: the differences still to undo.
\* M is the concatenation of the two columns without its all-NaN rows. Its
\* index keeps the quarterly frequency only while it is a gap-free range:
\* with a gap M.index.freq is None and "periods * M.index.freq" raises
\* (builds of pandas that keep the frequency raise KeyError at the row after
\* the gap instead; both are reported as the same failure here).
RECURSIVE Undifference(_, _, _, _, _, _, _)
Undifference(e, base, f0, fidx, f, Xindex, k) ==
    IF k = 0 THEN Rebuilt(f)
    ELSE
    LET Midx == {d \in base \cup fidx : d \in DOMAIN f0 \/ d \in DOMAIN f}
        orig == diffN(Midx, f0, e.periods, k - 1)
        start_date == Min(DOMAIN f)
        filled == [d \in (DOMAIN f) \cup (DOMAIN orig) |->
                      IF d \in DOMAIN f THEN f[d] ELSE orig[d]]
        walked == CumulativeWalk(filled, {d \in Midx : d >= start_date},
                                 e.periods)
    IN IF NoOverlap(Midx, orig, f)
       THEN Failed("ValueError: No overlap between input and original datasets")
       ELSE IF ~Contiguous(Midx) THEN Failed("TypeError: no frequency")
       ELSE IF start_date - e.periods < Min(Midx) THEN Failed("KeyError")
       ELSE IF ~(Xindex \subseteq Midx) THEN Failed("KeyError")
       ELSE Undifference(e, base, f0, Xindex, Restrict(walked, Xindex),
                         Xindex, k - 1)

\* col.split(".")[-1]
OrigCol(col) == <<Last(col)>>

\* newcol after the loop stripped one "D." for each difference.
Stripped(col, n) == SubSeq(col, n + 1, Len(col))

\* inverse_transform for column i of X: the error it raises or the rebuilt
\* column and its name.
InverseColumn(g, X0, X, i) ==
    LET col == X.cols[i]
        origcol == OrigCol(col)
        e == g[origcol]
        f0 == [d \in DOMAIN X0.val[ColPos(X0, origcol)] |->
                  Scale(e, X0.val[ColPos(X0, origcol)][d])]
        r == Undifference(e, X0.index, f0, asfreq(X).index, X.val[i],
                          X.index, e.ndiffs)
        newcol == Stripped(col, e.ndiffs)
        logged == Len(newcol) > 0 /\ Head(newcol) = "Ln"
        unlogged == IF logged
                    THEN [d \in DOMAIN r.val |-> exp(r.val[d])]
                    ELSE r.val
    IN IF ~HasCol(X0, origcol)
       THEN [error |-> "ValueError: Unknown column", name |-> <<>>,
             val |-> NoSeries]
       ELSE IF origcol \notin DOMAIN g
       THEN [error |-> "ValueError: truth value of an empty guide row",
             name |-> <<>>, val |-> NoSeries]
       ELSE IF r.error # ""
       THEN [error |-> r.error, name |-> <<>>, val |-> NoSeries]
       ELSE [error |-> "",
             name |-> IF logged THEN Tail(newcol) ELSE newcol,
             val |-> [d \in DOMAIN unlogged |-> unlogged[d] * e.norm]]

\* The body of PreprocessPipeline.inverse_transform, after the fitted
\* check: the columns are rebuilt in order and the first failure is raised.
Reconstruct(g, X0, X) ==
    LET n == Len(X.cols)
        bad == {i \in 1..n : InverseColumn(g, X0, X, i).error # ""}
    IN IF bad # {} THEN Raised(InverseColumn(g, X0, X, Min(bad)).error)
       ELSE Returned([cols |-> [i \in 1..n |-> InverseColumn(g, X0, X, i).name],
                      index |-> asfreq(X).index,
                      val |-> [i \in 1..n |-> InverseColumn(g, X0, X, i).val]])

\* inverse_transform without its fitted check.
inverse_transform_unchecked(fitted, g, X0, X) == Reconstruct(g, X0, X)

\* PreprocessPipeline.inverse_transform
inverse_transform(fitted, g, X0, X) ==
    IF ~fitted THEN Raised("NotFittedError") ELSE Reconstruct(g, X0, X)

----------------------------------------------------------------------------
(* The pipeline object and its callers *)

\* The guide of the run: any entry for x; y is differenced once over one
\* quarter and is logged when x is not.
YEntries(ex) ==
    {e \in GuideEntries :
        e.ndiffs = 1 /\ e.periods = 1 /\ e.loggable # ex.loggable}

Guides ==
    UNION {{[c \in {ColX, ColY} |-> IF c = ColX THEN ex ELSE ey] :
                ey \in YEntries(ex)} : ex \in GuideEntries}

\* PreprocessPipeline.__init__
PipeInit ==
    /\ guide_ \in Guides
    /\ hasX0 = FALSE
    /\ X0_ = NoTable
    /\ fitCalled = FALSE
    /\ op = "init"
    /\ arg = NoTable
    /\ src = NoTable
    /\ ret = NoResult

\* preprocess.fit(X)
Fit(X) ==
    /\ hasX0' = TRUE
    /\ X0_' = fit_X0(X)
    /\ fitCalled' = TRUE
    /\ op' = "fit"
    /\ arg' = X
    /\ src' = NoTable
    /\ ret' = fit_ret(guide_, X)
    /\ UNCHANGED guide_

\* A call that works on the caller's table itself.
caller_table_shared(X, out) == out

\* out = X.copy().asfreq("QS"): transform and inverse_transform pop and set
\* the columns of a copy, so the caller's table X is after the call what it
\* was before, whatever the table `out` has become.
caller_table(X, out) == X

\* preprocess.transform(X)
Transform(X) ==
    /\ op' = "transform"
    /\ arg' = caller_table(X, transform(hasX0, guide_, X).table)
    /\ src' = NoTable
    /\ ret' = transform(hasX0, guide_, X)
    /\ UNCHANGED <<guide_, hasX0, X0_, fitCalled>>

\* preprocess.inverse_transform(S), where S is the scaled form of table R
InverseTransform(R) ==
    LET S == ScaleAndDiff(guide_, R)
    IN /\ S.kind = "table"
       /\ op' = "inverse_transform"
       /\ arg' = caller_table(S.table,
                      inverse_transform(hasX0, guide_, X0_, S.table).table)
       /\ src' = R
       /\ ret' = inverse_transform(hasX0, guide_, X0_, S.table)
       /\ UNCHANGED <<guide_, hasX0, X0_, fitCalled>>

----------------------------------------------------------------------------
(* The walk-forward evaluator and the VAR fitter (predict/core.py) *)

MaxSplits == 3      \* n_splits is 1..MaxSplits
MaxSteps == 2       \* fit_var_model forecasts 1..MaxSteps quarters

\* The scaled values a VAR forecast may give (the estimation itself is not
\* modelled: any of these values may come out, or the fit may fail).
ForecastValues == {0, 1}

\* The tables the evaluator is run on: the whole history of the two known
\* columns, with and without a missing value, and a table with a column the
\* guide does not know.
EvalTables(g) ==
    {RawTable(g, <<ColX, ColY>>, 0, MaxDate, hole) : hole \in {"none", "cell"}}
    \cup {RawTable(g, <<ColX, ColZ>>, 0, MaxDate, "none")}

EndogChoices == {<<ColX>>, <<ColX, ColY>>}

\* A selection that keeps every row.
loc_all_rows(T, m) == T

\* unscaled_features.loc[:max_fit_date]
loc_upto(T, m) == Rows(T, {d \in T.index : d <= m})

\* get_features_col(columns, col, how="endswith"): the position of the
\* first column whose name ends with col, 0 when there is none.
EndsWith(name, col) ==
    /\ Len(col) <= Len(name)
    /\ SubSeq(name, Len(name) - Len(col) + 1, Len(name)) = col
get_features_col(columns, col) ==
    LET m == {i \in 1..Len(columns) : EndsWith(columns[i], col)}
    IN IF m = {} THEN 0 ELSE Min(m)

\* subset_features(features, usecols)
subset_features(T, usecols) ==
    LET pos == [k \in 1..Len(usecols) |-> get_features_col(T.cols, usecols[k])]
    IN IF \E k \in 1..Len(usecols) : pos[k] = 0
       THEN Raised("ValueError: No such column")
       ELSE Returned([cols |-> [k \in 1..Len(usecols) |-> T.cols[pos[k]]],
                      index |-> T.index,
                      val |-> [k \in 1..Len(usecols) |-> T.val[pos[k]]]])

\* TimeSeriesSplit(n_splits).split(X) over n rows: split i (from 0) tests
\* the block of test_size rows that starts at row test_start and trains on
\* every row before it.
SplitError(n_splits, n) == n_splits < 2 \/ n_splits + 1 > n
test_size(n_splits, n) == n \div (n_splits + 1)
test_start(n_splits, n, i) ==
    n - n_splits * test_size(n_splits, n) + i * test_size(n_splits, n)
\* A splitter that trains on every row.
train_idx_all_rows(n_splits, n, i) == 0..(n - 1)
train_idx(n_splits, n, i) == 0..(test_start(n_splits, n, i) - 1)
\* A splitter that tests every row after the training rows.
test_idx_to_end(n_splits, n, i) == test_start(n_splits, n, i)..(n - 1)
test_idx(n_splits, n, i) ==
    test_start(n_splits, n, i)..
        (test_start(n_splits, n, i) + test_size(n_splits, n) - 1)

\* scaled_features.iloc[positions].index
iloc_index(idx, positions) == {d \in idx : PosOf(idx, d) \in positions}

\* pd.DataFrame(var_result.forecast(...), columns=endog.columns, index=dates)
\* stacked under the rows `rows` of endog (pd.concat(..., axis=0)).
WithForecast(endog, rows, dates, v) ==
    [cols |-> endog.cols,
     index |-> rows \cup dates,
     val |-> [k \in 1..Len(endog.cols) |->
                [d \in ((DOMAIN endog.val[k]) \cap rows) \cup dates |->
                    IF d \in dates THEN v ELSE endog.val[k][d]]]]

\* Fractions n / d with d > 0, in lowest terms.
Abs(x) == IF x < 0 THEN -x ELSE x
RECURSIVE GCD(_, _)
GCD(a, b) == IF b = 0 THEN a ELSE GCD(b, a % b)
Ratio(n, d) == LET g == GCD(n, d) IN [n |-> n \div g, d |-> d \div g]
RatAdd(p, q) == Ratio(p.n * q.d + q.n * p.d, p.d * q.d)
RECURSIVE RatSum(_)
RatSum(f) ==
    IF DOMAIN f = {} THEN Ratio(0, 1)
    ELSE LET d == CHOOSE e \in DOMAIN f : TRUE
         IN RatAdd(f[d], RatSum(Del(f, d)))

\* A float that is NaN, +inf or a fraction.
NaN == [kind |-> "nan", n |-> 0, d |-> 1]
Inf == [kind |-> "inf", n |-> 0, d |-> 1]
Num(r) == [kind |-> "num", n |-> r.n, d |-> r.d]

\* (forecast - actual).abs() / actual.abs() of one cell. The values of a
\* loggable column are powers of two, written as by exp: 0 / 0 is NaN and
\* x / 0 is inf.
abs_error(loggable, f, a) ==
    IF loggable
    THEN LET k == log(f) - log(a)
         IN IF k >= 0 THEN Num(Ratio(Pow2(k) - 1, 1))
            ELSE Num(Ratio(Pow2(-k) - 1, Pow2(-k)))
    ELSE IF a = 0 THEN (IF f = 0 THEN NaN ELSE Inf)
    ELSE Num(Ratio(Abs(f - a), Abs(a)))

\* Series.mean(): the mean of the values that are not NaN, NaN when there is
\* none.
mean(terms) ==
    LET vals == {d \in DOMAIN terms : terms[d].kind # "nan"}
        total == RatSum([d \in vals |-> [n |-> terms[d].n, d |-> terms[d].d]])
    IN IF vals = {} THEN NaN
       ELSE IF \E d \in vals : terms[d].kind = "inf" THEN Inf
       ELSE Num(Ratio(total.n, total.d * Cardinality(vals)))

\* calculate_mape(forecast, actual): for every column, the mean over the
\* dates of |forecast - actual| / |actual|; a date that one of the two
\* tables lacks gives NaN. Both tables hold the same columns.
calculate_mape(g, forecast, actual) ==
    [c \in {forecast.cols[k] : k \in 1..Len(forecast.cols)} |->
        LET F == forecast.val[ColPos(forecast, c)]
            A == actual.val[ColPos(actual, c)]
        IN mean([d \in (DOMAIN F) \cap (DOMAIN A) |->
                    abs_error(g[c].loggable, F[d], A[d])])]

\* pd.concat(tables): the rows of the tables one under the other. The
\* tables hold the same columns.
concat(tables) ==
    [cols |-> tables[1].cols,
     index |-> UNION {tables[i].index : i \in 1..Len(tables)},
     val |-> [k \in 1..Len(tables[1].cols) |->
                [d \in UNION {DOMAIN tables[i].val[k] : i \in 1..Len(tables)} |->
                    LET i == CHOOSE j \in 1..Len(tables) :
                                 d \in DOMAIN tables[j].val[k]
                    IN tables[i].val[k][d]]]]

\* A score that is the mean of the scores of the splits.
combined_mape_mean_of_splits(g, splits) ==
    LET mapes == [i \in 1..Len(splits) |->
                     calculate_mape(g, splits[i].forecast, splits[i].actual)]
    IN [c \in DOMAIN mapes[1] |-> mean([i \in 1..Len(splits) |-> mapes[i][c]])]

\* combined_mape: the score of the concatenated forecasts against the
\* concatenated actual values.
combined_mape(g, splits) ==
    calculate_mape(g, concat([i \in 1..Len(splits) |-> splits[i].forecast]),
                      concat([i \in 1..Len(splits) |-> splits[i].actual]))

\* The dict test_train_var_model returns.
NoMetrics == [mape_vector |-> <<>>, mape |-> <<>>]
metrics_of(g, splits) ==
    [mape_vector |-> [i \in 1..Len(splits) |->
                         calculate_mape(g, splits[i].forecast, splits[i].actual)],
     mape |-> combined_mape(g, splits)]

TTIdle ==
    [pc |-> "idle", X |-> NoTable, endog_cols |-> <<>>, max_fit_date |-> 0,
     n_splits |-> 0, scaled_features |-> NoTable, endog |-> NoTable, i |-> 0,
     splits |-> <<>>, metrics |-> NoMetrics]

ReturnedMetrics == [kind |-> "metrics", error |-> "", table |-> NoTable]

\* _get_endog_exog_variables(X, preprocess, endog_cols, [], False): what it
\* raises, or the scaled features and the endog columns.
\* preprocess.fit_transform(X) is fit(X).transform(X).
get_endog_exog_variables(g, X, endog_cols) ==
    LET f == fit_ret(g, X)
        scaled == transform(TRUE, g, X)
        endog == subset_features(scaled.table, endog_cols)
    IN IF f.kind = "error" THEN [error |-> f, scaled |-> NoTable, endog |-> NoTable]
       ELSE IF scaled.kind = "error"
       THEN [error |-> scaled, scaled |-> NoTable, endog |-> NoTable]
       ELSE IF endog.kind = "error"
       THEN [error |-> endog, scaled |-> NoTable, endog |-> NoTable]
       ELSE [error |-> NoResult, scaled |-> scaled.table, endog |-> endog.table]

\* The baseline the pipeline holds after the call fit_transform(X) made by
\* _get_endog_exog_variables.
refit_X0(X0, X) == fit_X0(X)

\* test_train_var_model, up to the first split: the features up to
\* max_fit_date are scaled by fit_transform on the caller's pipeline and the
\* splitter is set up.
TestTrainBegin(X, endog_cols, max_fit_date, n_splits) ==
    LET Xm == loc_upto(X, max_fit_date)
        v == get_endog_exog_variables(guide_, Xm, endog_cols)
        n == Cardinality(v.scaled.index)
        err == IF v.error.kind = "error" THEN v.error
               ELSE IF SplitError(n_splits, n)
               THEN Raised("ValueError: TimeSeriesSplit")
               ELSE NoResult
    IN /\ op \in {"init", "fit"}
       /\ hasX0' = TRUE
       /\ X0_' = refit_X0(X0_, Xm)
       /\ fitCalled' = TRUE
       /\ op' = "test_train_var_model"
       /\ arg' = X
       /\ src' = NoTable
       /\ ret' = err
       /\ tt' = [pc |-> IF err.kind = "error" THEN "raised" ELSE "loop",
                 X |-> X, endog_cols |-> endog_cols,
                 max_fit_date |-> max_fit_date, n_splits |-> n_splits,
                 scaled_features |-> v.scaled, endog |-> v.endog, i |-> 0,
                 splits |-> <<>>, metrics |-> NoMetrics]
       /\ UNCHANGED guide_

\* One pass of the loop over the splits: fit the VAR on the training rows,
\* forecast the test rows, unscale forecast and actual values.
TestTrainSplit(fitted, v) ==
    LET idx == tt.scaled_features.index
        n == Cardinality(idx)
        train == iloc_index(idx, train_idx(tt.n_splits, n, tt.i))
        test == iloc_index(idx, test_idx(tt.n_splits, n, tt.i))
        forecast == inverse_transform(hasX0, guide_, X0_,
                        WithForecast(tt.endog, train, test, v))
        actual == inverse_transform(hasX0, guide_, X0_, Rows(tt.endog, test))
        err == IF ~fitted THEN Raised("LinAlgError")
               ELSE IF forecast.kind = "error" THEN forecast
               ELSE IF actual.kind = "error" THEN actual
               ELSE NoResult
    IN /\ tt.pc = "loop"
       /\ tt.i < tt.n_splits
       /\ IF err.kind = "error"
          THEN /\ tt' = [tt EXCEPT !.pc = "raised"]
               /\ ret' = err
          ELSE /\ tt' = [tt EXCEPT
                           !.i = tt.i + 1,
                           !.splits = Append(tt.splits,
                               [train |-> train, test |-> test,
                                forecast |-> Rows(asfreq(forecast.table), test),
                                actual |-> asfreq(actual.table)])]
               /\ ret' = ret
       /\ UNCHANGED <<guide_, hasX0, X0_, fitCalled, op, arg, src>>

\* After the last split test_train_var_model returns its metrics.
TestTrainEnd ==
    /\ tt.pc = "loop"
    /\ tt.i = tt.n_splits
    /\ tt' = [tt EXCEPT !.pc = "returned",
                        !.metrics = metrics_of(guide_, tt.splits)]
    /\ ret' = ReturnedMetrics
    /\ UNCHANGED <<guide_, hasX0, X0_, fitCalled, op, arg, src>>

\* fit_var_model(X, preprocess, plan_start_year, max_fit_date, cbo_data,
\* endog_cols, order) without exogenous columns or quarter dummies: the
\* forecast starts at future_start (July 1 of plan_start_year - 1) and runs
\* for `steps` quarters.
fit_var_model(g, X, endog_cols, future_start, steps, fitted, v) ==
    LET e == get_endog_exog_variables(g, X, endog_cols)
        future_dates == future_start..(future_start + steps - 1)
    IN IF e.error.kind = "error" THEN e.error
       ELSE IF ~fitted THEN Raised("LinAlgError")
       ELSE IF e.endog.index \cap future_dates # {}
       THEN Raised("ValueError: cannot reindex on an axis with duplicate labels")
       ELSE LET u == inverse_transform(TRUE, g, refit_X0(NoTable, X),
                        WithForecast(e.endog, e.endog.index, future_dates, v))
            IN IF u.kind = "error" THEN u ELSE Returned(asfreq(u.table))

\* pd.concat([endog, scaled_forecast], axis=0) of fit_var_model, when the
\* call gets that far.
scaled_with_forecast(g, X, endog_cols, future_start, steps, fitted, v) ==
    LET e == get_endog_exog_variables(g, X, endog_cols)
        future_dates == future_start..(future_start + steps - 1)
    IN IF e.error.kind = "error" \/ ~fitted THEN NoTable
       ELSE WithForecast(e.endog, e.endog.index, future_dates, v)

FitVarModel(X, endog_cols, future_start, steps, fitted, v) ==
    /\ op \in {"init", "fit"}
    /\ hasX0' = TRUE
    /\ X0_' = refit_X0(X0_, X)
    /\ fitCalled' = TRUE
    /\ op' = "fit_var_model"
    /\ arg' = X
    /\ src' = scaled_with_forecast(guide_, X, endog_cols, future_start, steps,
                                    fitted, v)
    /\ ret' = fit_var_model(guide_, X, endog_cols, future_start, steps, fitted, v)
    /\ UNCHANGED <<guide_, tt>>

----------------------------------------------------------------------------
(* The selector of exogenous variables (predict/utils.py) *)

\* The variables of the Granger matrix: the main tax base T, two other
\* endogenous variables and four indicators, one of them (K_r) with an
\* underscore in its name.
MainEndog == "T"
Variables == <<"T", "A", "B", "G", "H", "K", "K_r">>
Targets == {"T", "A"}
Drivers == {"G", "H"}

\* The name a variable has in the scaled features.
ScaledVariable(v) == IF v \in {"T", "G"} THEN <<"D", "Ln", v>> ELSE <<"D", v>>

\* The labels of the matrix: the scaled name with "_x" on the rows (the
\* cause) and "_y" on the columns (the effect).
Label(v, sfx) == [name |-> ScaledVariable(v), sfx |-> sfx]

\* p-values are whole numbers of 0.0001 (the matrix is rounded to four
\* decimals): below, at and above 0.05.
Pvals == {200, 500, 700}
Alphas == {100, 500, 1000}

\* A matrix: p[c][e] is the p-value of "c causes e". The values between a
\* driver and a target are free; K causes every target and is caused by
\* none; K_r causes every target at the weakest threshold only and is
\* caused by none; every other pair is unrelated.
FreeCells ==
    {<<d, t>> : d \in Drivers, t \in Targets} \cup
    {<<t, d>> : t \in Targets, d \in {"G"}} \cup {<<"T", "H">>}
Names == {Variables[i] : i \in 1..Len(Variables)}
Matrices ==
    {[c \in Names |-> [e \in Names |->
        IF <<c, e>> \in FreeCells THEN f[<<c, e>>]
        ELSE IF c = "K" /\ e \in Targets THEN 1
        ELSE IF c = "K_r" /\ e \in Targets THEN 700
        ELSE 9999]] : f \in [FreeCells -> Pvals]}

\* The threshold of the reverse test in _run.
ReverseAlpha == 500

ExogReturned(l) == [kind |-> "list", error |-> "", value |-> l]
ExogRaised(e) == [kind |-> "error", error |-> e, value |-> <<>>]
NoExogCall == [endog_cols |-> <<>>, ret |-> [kind |-> "none", error |-> "", value |-> <<>>]]

Range(s) == {s[i] : i \in 1..Len(s)}

\* get_features_col(grangers.columns, col, how="contains"): the first
\* column of the matrix whose label contains col, "" when there is none.
Contains(label, col) == col \in Range(label.name)
FirstColumn(col) ==
    LET m == {i \in 1..Len(Variables) : Contains(Label(Variables[i], "y"), col)}
    IN IF m = {} THEN "" ELSE Variables[Min(m)]

\* str.split("_") of the name of a variable
SplitUnderscore(v) == IF v = "K_r" THEN <<"K", "r">> ELSE <<v>>

\* c.split(".")[-1].split("_")[0] of a label: the text between the last
\* dot and the first underscore after it
FirstToken(label) == Head(SplitUnderscore(Last(label.name)))

\* c.split(".")[-1][:-2] of a label: the text after the last dot without
\* the suffix "_x" or "_y"
BareName(label) == Last(label.name)

\* _run(grangers, col, alpha): the names that pass the forward test at
\* alpha, are on the allow-list and pass the reverse test.
run(G, col, cbo, a) ==
    LET forward_g == {v \in Names : G[v][col] < a}
        cbo_subset == {v \in forward_g : FirstToken(Label(v, "x")) \in Range(cbo)}
        significant_one_way == {v \in cbo_subset : G[col][v] >= ReverseAlpha}
    IN {BareName(Label(v, "y")) : v \in significant_one_way}

\* list(allowed): the names of a set in the order the process iterates it.
ListOf(S, h) ==
    LET keep == {i \in 1..Len(h) : h[i] \in S}
        F[k \in 0..Len(h)] ==
            IF k = 0 THEN <<>>
            ELSE IF k \in keep THEN Append(F[k - 1], h[k]) ELSE F[k - 1]
    IN F[Len(h)]

\* get_possible_exog_variables without the final check of the names against
\* cbo_columns.
get_possible_exog_variables_unchecked(G, endog_cols, cbo, a, h) ==
    LET cols == [k \in 1..Len(endog_cols) |-> FirstColumn(endog_cols[k])]
        possible == [k \in 1..Len(endog_cols) |-> run(G, cols[k], cbo, a)]
        allowed == {v \in possible[1] :
                       \A k \in 1..Len(endog_cols) : v \in possible[k]}
    IN IF \E k \in 1..Len(endog_cols) : cols[k] = ""
       THEN ExogRaised("ValueError: No such column")
       ELSE IF Len(endog_cols) = 0 THEN ExogRaised("IndexError")
       ELSE ExogReturned(ListOf(allowed, h))

\* get_possible_exog_variables(grangers, endog_cols, cbo_columns, alpha)
get_possible_exog_variables(G, endog_cols, cbo, a, h) ==
    LET cols == [k \in 1..Len(endog_cols) |-> FirstColumn(endog_cols[k])]
        possible == [k \in 1..Len(endog_cols) |-> run(G, cols[k], cbo, a)]
        allowed == {v \in possible[1] :
                       \A k \in 1..Len(endog_cols) : v \in possible[k]}
    IN IF \E k \in 1..Len(endog_cols) : cols[k] = ""
       THEN ExogRaised("ValueError: No such column")
       ELSE IF Len(endog_cols) = 0 THEN ExogRaised("IndexError")
       ELSE IF ~(allowed \subseteq Range(cbo))
       THEN ExogRaised("ValueError: Error")
       ELSE ExogReturned(ListOf(allowed, h))

HashOrders == {<<"G", "H", "K", "K_r">>, <<"K_r", "K", "H", "G">>}
AllowLists == {<<"G", "H">>, <<"G", "H", "K">>}
EndogLists == {<<"T">>, <<"T", "A">>, <<"A">>}

ExogIdle ==
    /\ grangers = <<>>
    /\ cbo_columns = <<>>
    /\ alpha = 0
    /\ hash_order = <<>>
    /\ exog_call = NoExogCall

ExogInit ==
    /\ grangers \in Matrices
    /\ cbo_columns \in AllowLists
    /\ alpha \in Alphas
    /\ hash_order \in HashOrders
    /\ exog_call = NoExogCall

GetPossibleExogVariables(endog_cols) ==
    /\ exog_call' =
          [endog_cols |-> endog_cols,
           ret |-> get_possible_exog_variables(grangers, endog_cols,
                       cbo_columns, alpha, hash_order)]
    /\ UNCHANGED <<grangers, cbo_columns, alpha, hash_order>>

----------------------------------------------------------------------------
(* The grid search (predict/core.py) *)

MaxRuns == 2            \* the search is run MaxRuns times on the same arguments
MaxOtherEndog == 2      \* max_other_endog is 0..MaxOtherEndog
MaxExog == 2            \* max_exog is 0..MaxExog

\* What test_train_var_model gives for a candidate: the MAPE of the main
\* tax base, or a numerical failure of the VAR fit.
MaxMape == 2           \* a MAPE is 1..MaxMape
MaxLag == 2            \* the maximum lag of the Granger tests is 1..MaxLag
MaxGridList == 3       \* a list of a parameter grid holds at most MaxGridList values
MaxFits == 3           \* a list of ranked fits holds at most MaxFits fits
MaxGuideDate == 8      \* the tables of get_stationary_guide hold 0..MaxGuideDate
Failure == [failed |-> TRUE, mape |-> 0]
Outcomes == {Failure} \cup {[failed |-> FALSE, mape |-> m] : m \in 1..MaxMape}

GridFits(l) == [kind |-> "fits", error |-> "", fits |-> l]
GridRaised(e) == [kind |-> "error", error |-> e, fits |-> <<>>]
NoGridResult == [kind |-> "none", error |-> "", fits |-> <<>>]

\* The matrices the search is run with: G and H admissible for T and A,
\* only G admissible, none admissible. No indicator is admissible for B.
GridMatrices ==
    {[c \in Names |-> [e \in Names |->
        IF <<c, e>> \in FreeCells
        THEN IF c \in ok THEN 200 ELSE 700
        ELSE IF c = "K" /\ e \in Targets THEN 1
        ELSE 9999]] : ok \in {{"G", "H"}, {"G"}, {}}}

\* The parameter grids grid_search_var_model is called with directly: a
\* dict, as the sequence of its (name, values) items.
DirectGrids ==
    << << <<"order", <<1, 2>>>>, <<"endog_cols", << <<"T", "A">> >>>>,
          <<"max_fit_date", <<MaxDate>>>> >>,
       << <<"order", <<1>>>>, <<"endog_cols", << <<"T">> >>>>,
          <<"max_fit_date", <<MaxDate>>>>,
          <<"exog_cols", << <<>>, <<"G">> >>>> >>,
       << <<"order", <<1>>>>, <<"endog_cols", << <<"T">> >>>> >>,
       << <<"order", <<1>>>>, <<"endog_cols", << <<"T">> >>>>,
          <<"max_fit_date", <<MaxDate>>>>, <<"trend", <<"c">>>> >>,
       << <<"order", <<>>>>, <<"endog_cols", << <<"T">> >>>>,
          <<"max_fit_date", <<MaxDate>>>> >>,
       << <<"order", <<1>>>>, <<"endog_cols", << <<"A">> >>>>,
          <<"max_fit_date", <<MaxDate>>>> >>,
       << <<"order", <<1, 2>>>>,
          <<"exog_cols", << <<>>, <<"G">>, <<"G", "H">> >>>>,
          <<"endog_cols", << <<"T">> >>>>,
          <<"max_fit_date", <<MaxDate>>>> >> >>

\* itertools.combinations(l, k), in its order: the combinations that hold
\* the first element come first.
RECURSIVE combinations(_, _)
combinations(l, k) ==
    IF k = 0 THEN << <<>> >>
    ELSE IF Len(l) < k THEN <<>>
    ELSE LET with == combinations(Tail(l), k - 1)
         IN [i \in 1..Len(with) |-> <<Head(l)>> \o with[i]]
            \o combinations(Tail(l), k)

\* "while n > 0: out += combinations(l, n); n -= 1"
RECURSIVE combinations_down(_, _)
combinations_down(l, n) ==
    IF n <= 0 THEN <<>>
    ELSE combinations(l, n) \o combinations_down(l, n - 1)

\* itertools.product(*values), in its order: the last list varies fastest.
RECURSIVE product(_)
product(values) ==
    IF Len(values) = 0 THEN << <<>> >>
    ELSE LET rest == product(Tail(values))
             F[k \in 0..Len(Head(values))] ==
                 IF k = 0 THEN <<>>
                 ELSE F[k - 1] \o
                      [i \in 1..Len(rest) |-> <<Head(values)[k]>> \o rest[i]]
         IN F[Len(Head(values))]

\* dict(zip(param_names, param_set))
kws(param_names, param_set) ==
    [n \in Range(param_names) |->
        param_set[CHOOSE i \in 1..Len(param_names) : param_names[i] = n]]

\* The candidate a set of keywords stands for: the exogenous columns count
\* as a set.
Candidate(k) ==
    [n \in DOMAIN k |-> IF n = "exog_cols" THEN Range(k[n]) ELSE k[n]]

\* A check of the parameter names that only looks for the required ones.
GridError_required_only(param_names) ==
    IF ~({"endog_cols", "order", "max_fit_date"} \subseteq Range(param_names))
    THEN "ValueError: Missing required parameters"
    ELSE ""

\* The check of the parameter names in grid_search_var_model.
required == {"endog_cols", "order", "max_fit_date"}
optional == {"exog_cols", "model_quarters"}
GridError(param_names) ==
    IF ~(required \subseteq Range(param_names))
    THEN "ValueError: Missing required parameters"
    ELSE IF ~(Range(param_names) \subseteq required \cup optional)
    THEN "ValueError: Extra grid parameters provided"
    ELSE ""

\* sorted(fits, key=lambda x: x["target_mape"]): a stable sort.
RECURSIVE insert_sorted(_, _)
insert_sorted(l, f) ==
    IF Len(l) = 0 THEN <<f>>
    ELSE IF Last(l).target_mape <= f.target_mape THEN Append(l, f)
    ELSE Append(insert_sorted(SubSeq(l, 1, Len(l) - 1), f), Last(l))
RECURSIVE sorted(_)
sorted(fits) ==
    IF Len(fits) = 0 THEN <<>>
    ELSE insert_sorted(sorted(SubSeq(fits, 1, Len(fits) - 1)), Last(fits))

\* An end of the search that gives the best fit only.
grid_search_result_best_only(param_names, tasks, results) ==
    LET failed == {i \in 1..Len(tasks) : results[i] = Failure}
        fits == [i \in 1..Len(tasks) |->
                    [kws |-> kws(param_names, tasks[i]),
                     target_mape |-> results[i].mape]]
    IN IF failed # {} THEN GridRaised("LinAlgError")
       ELSE IF \E i \in 1..Len(tasks) :
                   MainEndog \notin Range(fits[i].kws["endog_cols"])
       THEN GridRaised("KeyError")
       ELSE GridFits(IF Len(fits) = 0 THEN <<>> ELSE <<sorted(fits)[1]>>)

\* The end of grid_search_var_model once the pool has mapped every task:
\* what p.map raises, or the fits with their target MAPE, sorted.
\* p.map gives the results in the order of the tasks.
grid_search_result(param_names, tasks, results) ==
    LET failed == {i \in 1..Len(tasks) : results[i] = Failure}
        fits == [i \in 1..Len(tasks) |->
                    [kws |-> kws(param_names, tasks[i]),
                     target_mape |-> results[i].mape]]
    IN IF failed # {} THEN GridRaised("LinAlgError")
       ELSE IF \E i \in 1..Len(tasks) :
                   MainEndog \notin Range(fits[i].kws["endog_cols"])
       THEN GridRaised("KeyError")
       ELSE GridFits(sorted(fits))

GsIdle == [pc |-> "idle", param_names |-> <<>>, values |-> <<>>,
           tasks |-> <<>>, results |-> <<>>, ret |-> NoGridResult]
RpmIdle == [pc |-> "idle", combos |-> <<>>, ci |-> 0, max_exog |-> 0,
            all_fits |-> <<>>]

\* The start of grid_search_var_model(grid_params): the names are checked
\* and the tasks of the pool are made.
gs_begin(grid_params) ==
    LET param_names == [i \in 1..Len(grid_params) |-> grid_params[i][1]]
        values == [i \in 1..Len(grid_params) |-> grid_params[i][2]]
        err == GridError(param_names)
    IN IF err # ""
       THEN [GsIdle EXCEPT !.pc = "raised", !.param_names = param_names,
                           !.values = values,
                           !.ret = GridRaised(err)]
       ELSE [GsIdle EXCEPT !.pc = "map", !.param_names = param_names,
                           !.values = values,
                           !.tasks = product(values)]

\* No call of the grid search is running.
CallOver ==
    /\ rpm.pc \in {"idle", "returned", "raised"}
    /\ gs.pc \in {"idle", "returned", "raised"}

\* A caller starts run_possible_models in a process with set order h.
RunPossibleModels(h) ==
    /\ inp.fn = "run_possible_models"
    /\ CallOver
    /\ runs < MaxRuns
    /\ runs' = runs + 1
    /\ first_ret' = IF runs = 1 THEN gret ELSE first_ret
    /\ hash_order' = h
    /\ rpm' = [RpmIdle EXCEPT
                 !.pc = "loop",
                 !.combos = combinations_down(inp.other_endog,
                                              inp.max_other_endog),
                 !.ci = 1,
                 !.max_exog = inp.max_exog]
    /\ gs' = GsIdle
    /\ gret' = NoGridResult
    /\ exog_call' = NoExogCall
    /\ UNCHANGED <<inp, mape_of, grangers, cbo_columns, alpha>>

\* One pass of "for cols in other_endog_combos" up to the call of
\* grid_search_var_model, or the return after the last pass.
RpmLoop ==
    /\ rpm.pc = "loop"
    /\ gs.pc \in {"idle", "returned"}
    /\ IF rpm.ci > Len(rpm.combos)
       THEN /\ rpm' = [rpm EXCEPT !.pc = "returned"]
            /\ gret' = GridFits(sorted(rpm.all_fits))
            /\ UNCHANGED <<gs, exog_call>>
       ELSE LET endog_cols == <<MainEndog>> \o rpm.combos[rpm.ci]
                e == get_possible_exog_variables(grangers, endog_cols,
                         cbo_columns, alpha, hash_order)
                possible_exog == e.value
                n == Min({Len(possible_exog), rpm.max_exog})
                exog_cols == IF rpm.max_exog > 0
                             THEN combinations_down(possible_exog, n)
                             ELSE << <<>> >>
                grid_params ==
                    << <<"order", inp.orders>>,
                       <<"endog_cols", <<endog_cols>>>>,
                       <<"exog_cols", exog_cols>>,
                       <<"model_quarters", <<FALSE>>>>,
                       <<"max_fit_date", <<MaxDate>>>> >>
            IN /\ exog_call' = [endog_cols |-> endog_cols, ret |-> e]
               /\ IF e.kind = "error"
                  THEN /\ rpm' = [rpm EXCEPT !.pc = "raised"]
                       /\ gret' = GridRaised(e.error)
                       /\ gs' = gs
                  ELSE /\ rpm' = [rpm EXCEPT !.pc = "search",
                                    !.max_exog = IF rpm.max_exog > 0 THEN 0
                                                 ELSE rpm.max_exog]
                       /\ gs' = gs_begin(grid_params)
                       /\ gret' = gret
    /\ UNCHANGED <<inp, mape_of, first_ret, runs, grangers, cbo_columns, alpha,
                   hash_order>>

\* A caller calls grid_search_var_model with a parameter grid of its own.
GridSearchVarModel(h) ==
    /\ inp.fn = "grid_search_var_model"
    /\ CallOver
    /\ runs < MaxRuns
    /\ runs' = runs + 1
    /\ first_ret' = IF runs = 1 THEN gret ELSE first_ret
    /\ hash_order' = h
    /\ rpm' = RpmIdle
    /\ gs' = gs_begin(inp.grid_params)
    /\ gret' = gs_begin(inp.grid_params).ret
    /\ UNCHANGED <<inp, mape_of, grangers, cbo_columns, alpha, exog_call>>

\* The worker of the pool runs the next task, _grid_search_parallel: the
\* candidate is evaluated by test_train_var_model.
Worker(o) ==
    LET i == Len(gs.results) + 1
        c == Candidate(kws(gs.param_names, gs.tasks[i]))
    IN /\ gs.pc = "map"
       /\ i <= Len(gs.tasks)
       /\ c \in DOMAIN mape_of => o = mape_of[c]
       /\ mape_of' = [k \in (DOMAIN mape_of) \cup {c} |->
                         IF k = c THEN o ELSE mape_of[k]]
       /\ gs' = [gs EXCEPT !.results = Append(gs.results, o)]
       /\ UNCHANGED <<inp, rpm, gret, first_ret, runs, exogVars>>

\* p.map is over: grid_search_var_model raises or returns, to its caller
\* or into the loop of run_possible_models.
GridSearchEnd ==
    LET r == grid_search_result(gs.param_names, gs.tasks, gs.results)
    IN /\ gs.pc = "map"
       /\ Len(gs.results) = Len(gs.tasks)
       /\ gs' = [gs EXCEPT !.pc = IF r.kind = "error" THEN "raised"
                                  ELSE "returned",
                           !.ret = r]
       /\ IF rpm.pc = "search"
          THEN IF r.kind = "error"
               THEN /\ rpm' = [rpm EXCEPT !.pc = "raised"]
                    /\ gret' = r
               ELSE /\ rpm' = [rpm EXCEPT !.pc = "loop", !.ci = rpm.ci + 1,
                                 !.all_fits = rpm.all_fits \o r.fits]
                    /\ gret' = gret
          ELSE /\ rpm' = rpm
               /\ gret' = r
       /\ UNCHANGED <<inp, mape_of, first_ret, runs, exogVars>>

OtherEndogLists == {<<>>, <<"A">>, <<"A", "B">>}

GridIdle ==
    /\ inp = <<>>
    /\ mape_of = <<>>
    /\ rpm = RpmIdle
    /\ gs = GsIdle
    /\ gret = NoGridResult
    /\ first_ret = NoGridResult
    /\ runs = 0

GridInit ==
    /\ \/ \E oe \in OtherEndogLists, moe \in 0..MaxOtherEndog,
             me \in 0..MaxExog :
             inp = [fn |-> "run_possible_models", other_endog |-> oe,
                    max_other_endog |-> moe, max_exog |-> me,
                    orders |-> <<1>>, grid_params |-> <<>>]
       \/ \E i \in DOMAIN DirectGrids :
             inp = [fn |-> "grid_search_var_model", other_endog |-> <<>>,
                    max_other_endog |-> 0, max_exog |-> 0,
                    orders |-> <<>>, grid_params |-> DirectGrids[i]]
    /\ mape_of = <<>>
    /\ rpm = RpmIdle
    /\ gs = GsIdle
    /\ gret = NoGridResult
    /\ first_ret = NoGridResult
    /\ runs = 0
    /\ grangers \in GridMatrices
    /\ cbo_columns = <<"G", "H">>
    /\ alpha = ReverseAlpha
    /\ hash_order \in HashOrders
    /\ exog_call = NoExogCall

----------------------------------------------------------------------------
(* The Granger matrix: grangers_causation_matrix *)

\* The four statistics grangercausalitytests computes at every lag.
Tests == {"params_ftest", "ssr_ftest", "ssr_chi2test", "lrtest"}

\* data.columns: the names of the scaled features.
GrangerColumns == <<<<"D", "x">>, <<"D", "Ln", "y">>>>
GrangerNames == {GrangerColumns[i] : i \in 1..Len(GrangerColumns)}

\* A result of grangercausalitytests: the p-value of every statistic at
\* every lag, in units of 0.00001. One statistic at one lag gives the low
\* value, the others the high one.
TestResult(bt, bl, hi) ==
    [l \in 1..MaxLag |-> [t \in Tests |-> IF t = bt /\ l = bl THEN 14 ELSE hi]]
TestResults ==
    {TestResult(bt, bl, hi) : bt \in Tests, bl \in 1..MaxLag, hi \in {25, 26}}
SelfResults ==
    {TestResult(bt, 1, 26) : bt \in {"ssr_chi2test", "lrtest"}}

\* grangercausalitytests(data[[r, c]]) for every r and c: the entry of
\* <<r, c>> tests whether the second column, c, causes the first, r.
GrangerOracles ==
    {f \in [GrangerNames \X GrangerNames -> TestResults \cup SelfResults] :
        \A r, c \in GrangerNames :
            IF r = c THEN f[<<r, c>>] \in SelfResults
            ELSE f[<<r, c>>] \in TestResults}

\* round(p, 4) of a p-value in units of 0.00001: whole numbers of 0.0001,
\* a tie to the even one.
round4(p) ==
    LET q == p \div 10
        m == p % 10
    IN IF m > 5 \/ (m = 5 /\ q % 2 = 1) THEN q + 1 ELSE q

\* p_values taken over every statistic.
p_values_all_tests(test_result, test, maxlag) ==
    {round4(test_result[l][t]) : l \in 1..maxlag, t \in Tests}

\* The list p_values of one cell, as the set of its members.
p_values(test_result, test, maxlag) ==
    {round4(test_result[l][test]) : l \in 1..maxlag}

\* var + "_x" and var + "_y"
Suffixed(var, sfx) == [name |-> var, sfx |-> sfx]

\* df after the loop and the renaming: the rows are labelled "_y" and the
\* columns "_x", and df[r_y][c_x] is the cell df.loc[r, c].
grangers_df(tests, variables, test, maxlag) ==
    LET names == {variables[i] : i \in 1..Len(variables)}
    IN [row \in {Suffixed(r, "y") : r \in names} |->
          [col \in {Suffixed(c, "x") : c \in names} |->
              Min(p_values(tests[<<row.name, col.name>>], test, maxlag))]]

\* df.T
Transposed(df) ==
    LET rows == DOMAIN df
        cols == UNION {DOMAIN df[r] : r \in rows}
    IN [c \in cols |-> [r \in rows |-> df[r][c]]]

\* grangers_causation_matrix without the transposition.
grangers_causation_matrix_df(tests, variables, test, maxlag) ==
    grangers_df(tests, variables, test, maxlag)

grangers_causation_matrix(tests, variables, test, maxlag) ==
    Transposed(grangers_df(tests, variables, test, maxlag))

NoGrangerCall == [test |-> "", maxlag |-> 0, ret |-> <<>>]

GrangerIdle ==
    /\ gc_tests = <<>>
    /\ gc_call = NoGrangerCall

GrangerInit ==
    /\ gc_tests \in GrangerOracles
    /\ gc_call = NoGrangerCall

GrangersCausationMatrix(test, maxlag) ==
    /\ gc_call' = [test |-> test, maxlag |-> maxlag,
                   ret |-> grangers_causation_matrix(gc_tests, GrangerColumns,
                                                     test, maxlag)]
    /\ UNCHANGED gc_tests

----------------------------------------------------------------------------
(* The builder of the guide: get_stationary_guide *)

\* The calendar: date 0 is the first quarter of 2018.
Year(d) == 2018 + (d \div 4)
Quarter(d) == (d % 4) + 1

\* The names of the raw features, written as their words: "NPTBase" is
\* <<"NPT", "Base">>. "Base" in col is the test that one word is "Base".
GuideNames == {<<"x">>, <<"Wage", "Base">>, <<"NPT", "Base">>}
QUARTERLY_YOY ==
    {<<"GrossReceipts", "Base">>, <<"NetIncome", "Base">>, <<"NPT", "Base">>}
InName(word, col) == \E i \in 1..Len(col) : col[i] = word

\* The values of a column: all positive ("pos"), of both signs with a
\* positive mean ("mixed"), with a negative mean ("neg"), or with the mean 0
\* over the dates 0..8 ("zero").
GuideProfiles == {"pos", "mixed", "neg", "zero"}
GuideValue(profile, d) ==
    IF profile = "pos" THEN Pow2((d * d) % 5)
    ELSE IF profile = "mixed" THEN 10 * ((d * d) % 5) - 10
    ELSE IF profile = "neg" THEN 10 - 10 * ((d * d) % 5)
    ELSE IF d = 0 THEN 0 ELSE IF d % 2 = 1 THEN 10 ELSE 0 - 10

\* The tables: one or two columns over 0..MaxGuideDate, the first column
\* with or without a missing value at HoleDate.
GuideTable(names, profiles, hole) ==
    [cols |-> names,
     index |-> 0..MaxGuideDate,
     val |-> [i \in 1..Len(names) |->
                [d \in (IF hole /\ i = 1 THEN (0..MaxGuideDate) \ {HoleDate}
                        ELSE 0..MaxGuideDate) |->
                    GuideValue(profiles[i], d)]]]
GuideTables ==
    {GuideTable(<<n>>, <<q>>, h) :
        n \in GuideNames, q \in GuideProfiles, h \in BOOLEAN}
    \cup {GuideTable(<<n[1], n[2]>>, <<q[1], q[2]>>, FALSE) :
            n \in {m \in GuideNames \X GuideNames : m[1] # m[2]},
            q \in GuideProfiles \X GuideProfiles}

RECURSIVE SumOf(_)
SumOf(f) ==
    IF DOMAIN f = {} THEN 0
    ELSE LET d == CHOOSE e \in DOMAIN f : TRUE
         IN f[d] + SumOf(Del(f, d))

\* (feature > 0).all()
loggable_of(f) == \A d \in DOMAIN f : f[d] > 0

\* norm: 1 for a loggable column, else 10 ** round(log10(mean)). The log10
\* of a negative mean is NaN and that of 0 is -inf, which gives the norm 0.
\* round(log10(s / n)) is the k with 10^(k - 1/2) <= s / n < 10^(k + 1/2);
\* the columns of the model have no mean strictly between 0 and 1.
norm_of(f) ==
    LET s == SumOf(f)
        n == Cardinality(DOMAIN f)
    IN IF loggable_of(f) THEN [nan |-> FALSE, v |-> 1]
       ELSE IF s < 0 THEN [nan |-> TRUE, v |-> 0]
       ELSE IF s = 0 THEN [nan |-> FALSE, v |-> 0]
       ELSE [nan |-> FALSE,
             v |-> 10 ^ (CHOOSE k \in 0..6 :
                            /\ (10 ^ (2 * k)) * n * n <= 10 * s * s
                            /\ 10 * s * s < (10 ^ (2 * k + 2)) * n * n)]

\* The feature that is tested: data[col].dropna(), logged or divided by
\* norm, and cut at the end of 2019 when exclude_2020 is set. index holds
\* its dates and val its values that are not NaN. A division by the norm 0
\* gives inf, -inf and (for 0 / 0) NaN: val then holds the sign of each
\* infinite value and finite is FALSE. A division by NaN gives NaN.
scaled_feature(f, exclude_2020) ==
    LET nm == norm_of(f)
        keep == IF exclude_2020 THEN {d \in DOMAIN f : Year(d) <= 2019}
                ELSE DOMAIN f
        val == IF loggable_of(f) THEN [d \in DOMAIN f |-> log(f[d])]
               ELSE IF nm.nan THEN NoSeries
               ELSE IF nm.v = 0
               THEN [d \in {e \in DOMAIN f : f[e] # 0} |->
                        IF f[d] > 0 THEN 1 ELSE 0 - 1]
               ELSE [d \in DOMAIN f |-> f[d] \div nm.v]
    IN [index |-> keep, val |-> Restrict(val, keep),
        finite |-> ~nm.nan /\ nm.v # 0]

\* feature.diff(periods).dropna(). inf - inf is NaN, and the difference of
\* two infinite values of opposite signs is infinite.
feature_diff(F, periods) ==
    LET r == diff(F.index, F.val, periods)
        val == IF F.finite THEN r
               ELSE [d \in {e \in DOMAIN r : r[e] # 0} |-> r[d] \div 2]
    IN [index |-> DOMAIN val, val |-> val, finite |-> F.finite]

\* The fewest observations adfuller accepts.
AdfMinObs == 4

\* A test that answers for a series of any length.
test_stationarity_no_minimum(F, ndiffs, first, lenient) ==
    IF first # 0 /\ ndiffs >= first THEN "yes" ELSE "no"

\* test_stationarity(feature): "yes", "no", or the error adfuller raises.
\* adfuller needs AdfMinObs observations. What it does with a series that
\* is constant or holds NaN or inf depends on the installed libraries: it
\* raises, or (lenient) it gives no significant p-value for NaN and inf and
\* its answer for a constant. first is the least number of differences
\* after which the series tests as stationary, 0 when there is none.
test_stationarity(F, ndiffs, first, lenient) ==
    LET answer == IF first # 0 /\ ndiffs >= first THEN "yes" ELSE "no"
    IN IF Cardinality(F.index) < AdfMinObs
       THEN "ValueError: sample size is too short"
       ELSE IF ~F.finite \/ DOMAIN F.val # F.index
       THEN IF lenient THEN "no" ELSE "LinAlgError: SVD did not converge"
       ELSE IF Cardinality({F.val[d] : d \in F.index}) = 1
       THEN IF lenient THEN answer ELSE "ValueError: x is constant"
       ELSE answer

\* The while loop without the break for the tax bases.
RECURSIVE difference_loop_no_break(_, _, _, _, _)
difference_loop_no_break(col, F, ndiffs, first, lenient) ==
    LET t == test_stationarity(F, ndiffs, first, lenient)
        periods == IF col \notin QUARTERLY_YOY THEN 1 ELSE 4
    IN IF t \notin {"yes", "no"} THEN [ndiffs |-> ndiffs, error |-> t]
       ELSE IF t = "yes" /\ ndiffs >= 1 THEN [ndiffs |-> ndiffs, error |-> ""]
       ELSE difference_loop_no_break(col, feature_diff(F, periods), ndiffs + 1,
                                     first, lenient)

\* The while loop: difference until the feature tests as stationary, at
\* least once, and a tax base once only.
RECURSIVE difference_loop(_, _, _, _, _)
difference_loop(col, F, ndiffs, first, lenient) ==
    LET t == test_stationarity(F, ndiffs, first, lenient)
        periods == IF col \notin QUARTERLY_YOY THEN 1 ELSE 4
    IN IF t \notin {"yes", "no"} THEN [ndiffs |-> ndiffs, error |-> t]
       ELSE IF t = "yes" /\ ndiffs >= 1 THEN [ndiffs |-> ndiffs, error |-> ""]
       ELSE IF ndiffs = 1 /\ InName("Base", col)
       THEN [ndiffs |-> ndiffs, error |-> ""]
       ELSE difference_loop(col, feature_diff(F, periods), ndiffs + 1,
                            first, lenient)

\* One pass of the loop over the columns: the row of the guide for column
\* i, with the error raised on the way if any.
guide_row(data, i, exclude_2020, first, lenient) ==
    LET col == data.cols[i]
        f == data.val[i]
        w == difference_loop(col, scaled_feature(f, exclude_2020), 0,
                             first, lenient)
    IN [variable |-> col, ndiffs |-> w.ndiffs, loggable |-> loggable_of(f),
        norm |-> norm_of(f).v,
        periods |-> IF col \notin QUARTERLY_YOY THEN 1 ELSE 4,
        error |-> w.error]

GuideReturned(rows) == [kind |-> "guide", error |-> "", col |-> 0, guide |-> rows]
GuideRaised(e, i) == [kind |-> "error", error |-> e, col |-> i, guide |-> <<>>]

\* get_stationary_guide(data, exclude_2020): the rows of every column, or
\* the error of the first column that raises. (The figures it saves for
\* the tax bases are left out.)
get_stationary_guide(data, exclude_2020, firsts, lenient) ==
    LET n == Len(data.cols)
        rows == [i \in 1..n |->
                    guide_row(data, i, exclude_2020, firsts[i], lenient)]
        bad == {i \in 1..n : rows[i].error # ""}
    IN IF bad # {} THEN GuideRaised(rows[Min(bad)].error, Min(bad))
       ELSE GuideReturned(rows)

NoGuideCall ==
    [exclude_2020 |-> FALSE, firsts |-> <<>>,
     ret |-> [kind |-> "none", error |-> "", col |-> 0, guide |-> <<>>]]

GuideIdle ==
    /\ sg_data = NoTable
    /\ sg_call = NoGuideCall

GuideInit ==
    /\ sg_data \in GuideTables
    /\ sg_call = NoGuideCall

GetStationaryGuide(exclude_2020, firsts, lenient) ==
    /\ sg_call = NoGuideCall
    /\ sg_call' = [exclude_2020 |-> exclude_2020, firsts |-> firsts,
                   ret |-> get_stationary_guide(sg_data, exclude_2020,
                                                firsts, lenient)]
    /\ UNCHANGED sg_data

----------------------------------------------------------------------------
(* The differencing loop of get_stationary_guide, pass by pass *)

\* No run of the model makes more passes than this.
MaxPasses == MaxGuideDate + 2

LoopIdle ==
    dl = [pc |-> "idle", col |-> <<>>, F |-> [index |-> {}, val |-> <<>>,
          finite |-> TRUE], ndiffs |-> 0, first |-> 0, lenient |-> FALSE,
          last |-> "", error |-> ""]

\* The loop is about to test the scaled feature of a column for the first
\* time, with ndiffs = 0.
LoopInit ==
    \E T \in {U \in GuideTables : Len(U.cols) = 1},
       exclude_2020 \in BOOLEAN, first \in 0..MaxNdiffs, lenient \in BOOLEAN :
        dl = [pc |-> "while", col |-> T.cols[1],
              F |-> scaled_feature(T.val[1], exclude_2020),
              ndiffs |-> 0, first |-> first, lenient |-> lenient,
              last |-> "", error |-> ""]

\* One evaluation of the condition of the while loop, with the pass that
\* follows it: adfuller raises, or the loop ends (by its condition or by
\* the break), or the feature is differenced once more.
LoopPass ==
    LET t == test_stationarity(dl.F, dl.ndiffs, dl.first, dl.lenient)
        periods == IF dl.col \notin QUARTERLY_YOY THEN 1 ELSE 4
    IN /\ dl.pc = "while"
       /\ dl.ndiffs < MaxPasses
       /\ dl' = IF t \notin {"yes", "no"}
                THEN [dl EXCEPT !.pc = "raised", !.last = t, !.error = t]
                ELSE IF t = "yes" /\ dl.ndiffs >= 1
                THEN [dl EXCEPT !.pc = "returned", !.last = t]
                ELSE IF dl.ndiffs = 1 /\ InName("Base", dl.col)
                THEN [dl EXCEPT !.pc = "returned", !.last = t]
                ELSE [dl EXCEPT !.F = feature_diff(dl.F, periods),
                                !.ndiffs = dl.ndiffs + 1, !.last = t]

----------------------------------------------------------------------------
(* Fiscal years and the average forecast: aggregate_to_fiscal_year and *)
(* get_avg_forecast_from_fits                                           *)

\* A quarterly Series is [index, val]: its dates, and its values that are
\* not NaN. The Series of the model run to the second quarter of 2021.
AggEnd == 13
AggSeries ==
    {[index |-> lo..hi,
      val |-> [d \in (lo..hi) \ hole |-> IF ones THEN 1 ELSE (d % 3) + 1]] :
        lo \in {0, 9, 10}, hi \in (AggEnd - 2)..AggEnd,
        hole \in {{}, {AggEnd - 2}}, ones \in BOOLEAN}

\* data.index.shift(shift, freq=freq) of a quarter start, in quarters:
\* 2 quarters ("QS") or 6 months ("MS").
index_shift(d, freq) == d + (IF freq = "QS" THEN 2 * 3 ELSE 6) \div 3

\* data.groupby(data.index.shift(shift, freq=freq).year).sum(): a group
\* for every year some shifted date falls in, with the sum of its values
\* that are not NaN.
groupby_year_sum(data, freq) ==
    [y \in {Year(index_shift(d, freq)) : d \in data.index} |->
        SumOf(Restrict(data.val,
                       {d \in data.index : Year(index_shift(d, freq)) = y}))]

AggReturned(sums) == [kind |-> "frame", error |-> "", sums |-> sums]
AggRaised(e) == [kind |-> "error", error |-> e, sums |-> <<>>]

\* A grouping by the calendar year.
aggregate_to_calendar_year(data, freq) ==
    AggReturned([y \in {Year(d) : d \in data.index} |->
                    SumOf(Restrict(data.val,
                                   {d \in data.index : Year(d) = y}))])

aggregate_to_fiscal_year(data, freq) ==
    IF freq \notin {"MS", "QS"} THEN AggRaised("AssertionError")
    ELSE AggReturned(groupby_year_sum(data, freq))

\* The fits: fit i of a list has the target MAPE i; it holds the key
\* "exog_cols" or not; forecast is what fit_var_model gives for its
\* parameters, forecast[main_endog], unless fit_var_model raises.
ForecastChoices ==
    {s \in AggSeries : s.index \in {9..AggEnd, 10..AggEnd}
                       /\ DOMAIN s.val = s.index}
NoForecast == [index |-> {}, val |-> NoSeries]
FitLists ==
    UNION {[1..n -> {f \in [has_exog_cols : BOOLEAN, raises : BOOLEAN,
                             forecast : ForecastChoices \cup {NoForecast}] :
                        f.raises <=> f.forecast = NoForecast}] :
              n \in 0..MaxFits}
RankedFit(fits, i) ==
    [target_mape |-> i, has_exog_cols |-> fits[i].has_exog_cols]

AvgReturned(avg, params) ==
    [kind |-> "avg", error |-> "", avg |-> avg, all_params |-> params]
AvgRaised(e) == [kind |-> "error", error |-> e, avg |-> <<>>, all_params |-> <<>>]

\* pd.concat(forecasts, axis=1).mean(axis=1): for every fiscal year of some
\* forecast, the mean over the forecasts that have it, as total / count.
mean_by_year(forecasts) ==
    LET years == UNION {DOMAIN forecasts[i] : i \in 1..Len(forecasts)}
    IN [y \in years |->
          LET have == {i \in 1..Len(forecasts) : y \in DOMAIN forecasts[i]}
          IN [total |-> SumOf([i \in have |-> forecasts[i][y]]),
              count |-> Cardinality(have)]]

\* A loop over the fits that starts at the second one.
get_avg_forecast_skip_best(fits, max_fits) ==
    LET fail(i) == i > Len(fits) \/ ~fits[i].has_exog_cols
                   \/ fits[i].raises
        bad == {i \in 2..(max_fits + 1) : fail(i)}
    IN IF bad # {} THEN AvgRaised("Error")
       ELSE IF max_fits <= 0 THEN AvgRaised("ValueError: No objects to concatenate")
       ELSE AvgReturned(
                mean_by_year([i \in 1..max_fits |->
                                groupby_year_sum(fits[i + 1].forecast, "QS")]),
                [i \in 1..max_fits |-> RankedFit(fits, i + 1)])

\* get_avg_forecast_from_fits(..., fits, ..., max_fits): the loop raises at
\* the first index that the list does not have (fits[i]), whose fit has no
\* "exog_cols" (params["exog_cols"]) or for which fit_var_model raises.
get_avg_forecast_from_fits(fits, max_fits) ==
    LET bad == {i \in 1..max_fits :
                   \/ i > Len(fits)
                   \/ ~fits[i].has_exog_cols
                   \/ fits[i].raises}
        b == Min(bad)
    IN IF bad # {}
       THEN IF b > Len(fits) THEN AvgRaised("IndexError")
            ELSE IF ~fits[b].has_exog_cols THEN AvgRaised("KeyError: 'exog_cols'")
            ELSE AvgRaised("LinAlgError")
       ELSE IF max_fits <= 0
       THEN AvgRaised("ValueError: No objects to concatenate")
       ELSE AvgReturned(
                mean_by_year([i \in 1..max_fits |->
                                groupby_year_sum(fits[i].forecast, "QS")]),
                [i \in 1..max_fits |-> RankedFit(fits, i)])

NoAggCall == [data |-> <<>>, freq |-> "", ret |-> [kind |-> "none", error |-> "", sums |-> <<>>]]
NoAvgCall ==
    [max_fits |-> 0,
     ret |-> [kind |-> "none", error |-> "", avg |-> <<>>, all_params |-> <<>>]]

AggIdle ==
    /\ agg_call = NoAggCall
    /\ avg_fits = <<>>
    /\ avg_call = NoAvgCall

AggInit ==
    /\ agg_call = NoAggCall
    /\ avg_fits \in FitLists
    /\ avg_call = NoAvgCall

AggregateToFiscalYear(data, freq) ==
    /\ agg_call = NoAggCall
    /\ avg_fits = <<>>
    /\ agg_call' = [data |-> data, freq |-> freq,
                    ret |-> aggregate_to_fiscal_year(data, freq)]
    /\ UNCHANGED <<avg_fits, avg_call>>

GetAvgForecastFromFits(max_fits) ==
    /\ agg_call = NoAggCall
    /\ avg_call = NoAvgCall
    /\ avg_call' = [max_fits |-> max_fits,
                    ret |-> get_avg_forecast_from_fits(avg_fits, max_fits)]
    /\ UNCHANGED <<agg_call, avg_fits>>

----------------------------------------------------------------------------
(* Lookup of columns by name: get_features_col on the text of the labels *)

\* A text is the sequence of its characters. The names of the variables of
\* this part are the texts of one to MaxNameLen letters, so that one name
\* can end another or lie inside it ("PCE" and "PCEPriceIndex" in the
\* data of the repository).
MaxNameLen == 2
Letters == {"a", "b"}
TextNames == UNION {[1..n -> Letters] : n \in 1..MaxNameLen}
AbsentName == <<"c">>

\* a.endswith(b) and b in a
str_endswith(a, b) ==
    /\ Len(b) <= Len(a)
    /\ SubSeq(a, Len(a) - Len(b) + 1, Len(a)) = b
str_in(b, a) ==
    \E i \in 1..(Len(a) - Len(b) + 1) : SubSeq(a, i, i + Len(b) - 1) = b

\* newcol of transform as text: "Ln." before the name of a logged column,
\* then "D." once for each difference.
RECURSIVE text_diffs(_, _)
text_diffs(n, t) == IF n = 0 THEN t ELSE text_diffs(n - 1, <<"D", ".">> \o t)
text_newcol(e, col) ==
    text_diffs(e.ndiffs, IF e.loggable THEN <<"L", "n", ".">> \o col ELSE col)

LookupReturned(cols) == [kind |-> "cols", error |-> "", cols |-> cols]
LookupRaised(e) == [kind |-> "error", error |-> e, cols |-> <<>>]

\* get_features_col(columns, col, how) on texts: the first label that
\* matches.
matches(columns, col, how) ==
    {i \in 1..Len(columns) :
        IF how = "endswith" THEN str_endswith(columns[i], col)
        ELSE str_in(col, columns[i])}
get_features_col_text(columns, col, how) ==
    IF how \notin {"endswith", "contains"}
    THEN LookupRaised("ValueError: Unknown 'how'")
    ELSE IF matches(columns, col, how) = {}
    THEN LookupRaised("ValueError: No such column")
    ELSE LookupReturned(<<columns[Min(matches(columns, col, how))]>>)

\* [get_features_col(features.columns, col) for col in usecols]
RECURSIVE usecols_of(_, _)
usecols_of(columns, usecols) ==
    IF usecols = <<>> THEN LookupReturned(<<>>)
    ELSE LET first == get_features_col_text(columns, Head(usecols), "endswith")
             rest == usecols_of(columns, Tail(usecols))
         IN IF first.kind = "error" THEN first
            ELSE IF rest.kind = "error" THEN rest
            ELSE LookupReturned(first.cols \o rest.cols)

NoLookup ==
    [op |-> "none", variables |-> <<>>, columns |-> <<>>, usecols |-> <<>>,
     ret |-> [kind |-> "none", error |-> "", cols |-> <<>>]]
NameIdle == lookup = NoLookup

\* The frames: two variables with different names, each with its entry of
\* the guide.
NameFrames ==
    {f \in [variables : [1..2 -> TextNames],
            entries : [1..2 -> [loggable : BOOLEAN, ndiffs : 1..MaxNdiffs]]] :
        f.variables[1] # f.variables[2]}
\* The names that can be asked of a frame: its variables and a name it
\* does not hold.
Askable(f) == {f.variables[1], f.variables[2], AbsentName}

\* subset_features(features, usecols) on the scaled features of a frame
SubsetFeatures(f, usecols) ==
    LET columns == [k \in 1..2 |-> text_newcol(f.entries[k], f.variables[k])]
    IN /\ lookup = NoLookup
       /\ lookup' = [op |-> "subset_features", variables |-> f.variables,
                     columns |-> columns, usecols |-> usecols,
                     ret |-> usecols_of(columns, usecols)]

\* The first statement of _run and of get_possible_endog_variables: the
\* label of the target among the labels "<scaled name>_y" of the matrix.
TargetColumn(f, col) ==
    LET columns ==
            [k \in 1..2 |->
                text_newcol(f.entries[k], f.variables[k]) \o <<"_", "y">>]
    IN /\ lookup = NoLookup
       /\ lookup' = [op |-> "target", variables |-> f.variables,
                     columns |-> columns, usecols |-> <<col>>,
                     ret |-> get_features_col_text(columns, col, "contains")]

----------------------------------------------------------------------------
(* Fiscal quarters: date_from_fiscal_quarter and get_all_tax_bases *)

\* pd.to_datetime of the text "month/1/year": the quarter the day is in.
to_datetime(month, year) == (year - 2018) * 4 + (month - 1) \div 3

\* A date that is NaN.
NaT == [nan |-> TRUE, date |-> 0]
Timestamp(d) == [nan |-> FALSE, date |-> d]

\* The first month of the calendar quarter with the number of the fiscal
\* quarter, in the fiscal year itself.
date_from_fiscal_quarter_calendar(fiscal_year, fiscal_quarter) ==
    IF fiscal_quarter \in 1..4
    THEN Timestamp(to_datetime(3 * fiscal_quarter - 2, fiscal_year))
    ELSE NaT

date_from_fiscal_quarter(fiscal_year, fiscal_quarter) ==
    IF fiscal_quarter = 1 THEN Timestamp(to_datetime(7, fiscal_year - 1))
    ELSE IF fiscal_quarter = 2 THEN Timestamp(to_datetime(10, fiscal_year - 1))
    ELSE IF fiscal_quarter = 3 THEN Timestamp(to_datetime(1, fiscal_year))
    ELSE IF fiscal_quarter = 4 THEN Timestamp(to_datetime(4, fiscal_year))
    ELSE NaT

NoFqCall ==
    [pc |-> "idle", rows |-> {}, Date |-> <<>>,
     data |-> [index |-> {}, val |-> <<>>], freq |-> "",
     ret |-> [kind |-> "none", error |-> "", sums |-> <<>>]]
FiscalIdle == fq_call = NoFqCall

\* The rows of the tax data: quarters of one fiscal year, numbered 1..4 or
\* with a number that is no fiscal quarter.
FiscalRowYears == 2019..2021
FiscalRowQuarters == 0..5

\* get_all_tax_bases: the rows get the date of their fiscal quarter as the
\* index and the rows without a date are dropped. Every row holds the
\* value 1, and rows that share a date add up.
GetAllTaxBases(Y, Q) ==
    LET rows == {<<Y, q>> : q \in Q}
        Date == [r \in rows |-> date_from_fiscal_quarter(r[1], r[2])]
        dated == {r \in rows : ~Date[r].nan}
        index == {Date[r].date : r \in dated}
    IN /\ fq_call = NoFqCall
       /\ fq_call' = [NoFqCall EXCEPT
             !.pc = "dated", !.rows = rows, !.Date = Date,
             !.data = [index |-> index,
                       val |-> [d \in index |->
                           Cardinality({r \in dated : Date[r].date = d})]]]

\* aggregate_to_fiscal_year on a column of the tax bases
AggregateTaxBases(freq) ==
    /\ fq_call.pc = "dated"
    /\ fq_call' = [fq_call EXCEPT
          !.pc = "aggregated", !.freq = freq,
          !.ret = aggregate_to_fiscal_year(fq_call.data, freq)]

----------------------------------------------------------------------------
(* Specifications *)

vars == <<pipeVars, evalVars, exogVars, gridVars, moreVars>>

\* The parts that take no step in a specification stay as constructed.
MoreIdle ==
    GrangerIdle /\ GuideIdle /\ AggIdle /\ LoopIdle /\ NameIdle /\ FiscalIdle

\* The pipeline object on its own: fit, transform and inverse_transform
\* called in any order on the tables of the run.
Init ==
    /\ PipeInit
    /\ tt = TTIdle
    /\ ExogIdle
    /\ GridIdle
    /\ MoreIdle

Next ==
    \/ \E X \in RawTables(guide_) :
          Fit(X) /\ UNCHANGED <<evalVars, exogVars, gridVars, moreVars>>
    \/ \E X \in RawTables(guide_) :
          Transform(X) /\ UNCHANGED <<evalVars, exogVars, gridVars, moreVars>>
    \/ \E R \in RawTables(guide_) :
          InverseTransform(R) /\ UNCHANGED <<evalVars, exogVars, gridVars, moreVars>>

Spec == Init /\ [][Next]_vars

\* One call of the evaluator or of the fitter, on a pipeline fresh from its
\* construction or fitted by its owner before the call.
NextEval ==
    \/ \E X \in EvalTables(guide_) :
          op = "init" /\ Fit(X) /\ UNCHANGED <<evalVars, exogVars, gridVars, moreVars>>
    \/ \E X \in EvalTables(guide_), c \in EndogChoices,
          m \in 0..MaxDate, n \in 1..MaxSplits :
          TestTrainBegin(X, c, m, n) /\ UNCHANGED <<exogVars, gridVars, moreVars>>
    \/ \E f \in BOOLEAN, v \in ForecastValues :
          TestTrainSplit(f, v) /\ UNCHANGED <<exogVars, gridVars, moreVars>>
    \/ TestTrainEnd /\ UNCHANGED <<exogVars, gridVars, moreVars>>
    \/ \E X \in EvalTables(guide_), c \in EndogChoices,
          fs \in 0..(MaxDate + 2), k \in 1..MaxSteps,
          f \in BOOLEAN, v \in ForecastValues :
          FitVarModel(X, c, fs, k, f, v) /\ UNCHANGED <<exogVars, gridVars, moreVars>>

SpecEval == Init /\ [][NextEval]_vars

\* The evaluator on a history long enough for test blocks of two quarters.
\* A call of test_train_var_model on a pipeline fresh from its construction.
ScoreEnd == MaxDate + 3
ScoreTables(g) ==
    {RawTable(g, <<ColX, ColY>>, 0, ScoreEnd, hole) : hole \in Holes}

NextScore ==
    \/ \E X \in ScoreTables(guide_), c \in EndogChoices,
          m \in (ScoreEnd - 1)..ScoreEnd, n \in 2..MaxSplits :
          TestTrainBegin(X, c, m, n) /\ UNCHANGED <<exogVars, gridVars, moreVars>>
    \/ \E f \in BOOLEAN, v \in ForecastValues :
          TestTrainSplit(f, v) /\ UNCHANGED <<exogVars, gridVars, moreVars>>
    \/ TestTrainEnd /\ UNCHANGED <<exogVars, gridVars, moreVars>>

\* The guides of these runs difference every column once.
InitScore == Init /\ guide_[ColX].ndiffs = 1

SpecScore == InitScore /\ [][NextScore]_vars

\* The selector called on any matrix, allow-list and threshold.
PipeIdle ==
    /\ guide_ = <<>>
    /\ hasX0 = FALSE
    /\ X0_ = NoTable
    /\ fitCalled = FALSE
    /\ op = "init"
    /\ arg = NoTable
    /\ src = NoTable
    /\ ret = NoResult

InitExog ==
    /\ PipeIdle
    /\ tt = TTIdle
    /\ ExogInit
    /\ GridIdle
    /\ MoreIdle

NextExog ==
    \E e \in EndogLists :
        GetPossibleExogVariables(e) /\ UNCHANGED <<pipeVars, evalVars, gridVars, moreVars>>

SpecExog == InitExog /\ [][NextExog]_vars

\* The grid search, run MaxRuns times on the same arguments by processes
\* that may iterate sets in different orders.
InitGrid ==
    /\ PipeIdle
    /\ tt = TTIdle
    /\ GridInit
    /\ MoreIdle

NextGrid ==
    \/ \E h \in HashOrders :
          RunPossibleModels(h) /\ UNCHANGED <<pipeVars, evalVars, moreVars>>
    \/ RpmLoop /\ UNCHANGED <<pipeVars, evalVars, moreVars>>
    \/ \E h \in HashOrders :
          GridSearchVarModel(h) /\ UNCHANGED <<pipeVars, evalVars, moreVars>>
    \/ \E o \in Outcomes : Worker(o) /\ UNCHANGED <<pipeVars, evalVars, moreVars>>
    \/ GridSearchEnd /\ UNCHANGED <<pipeVars, evalVars, moreVars>>

SpecGrid == InitGrid /\ [][NextGrid]_vars

\* grangers_causation_matrix called with any statistic and any maximum lag
\* on the results of the pairwise tests.
InitGranger ==
    /\ PipeIdle
    /\ tt = TTIdle
    /\ ExogIdle
    /\ GridIdle
    /\ GrangerInit
    /\ GuideIdle
    /\ AggIdle
    /\ LoopIdle
    /\ NameIdle
    /\ FiscalIdle

NextGranger ==
    \E test \in Tests, maxlag \in 1..MaxLag :
        GrangersCausationMatrix(test, maxlag)
        /\ UNCHANGED <<pipeVars, evalVars, exogVars, gridVars, guideVars,
                       aggVars, loopVars, nameVars,
                       fiscalVars>>

SpecGranger == InitGranger /\ [][NextGranger]_vars

\* get_stationary_guide called on any table of the model, with any answers
\* of the stationarity test.
InitGuide ==
    /\ PipeIdle
    /\ tt = TTIdle
    /\ ExogIdle
    /\ GridIdle
    /\ GrangerIdle
    /\ GuideInit
    /\ AggIdle
    /\ LoopIdle
    /\ NameIdle
    /\ FiscalIdle

NextGuide ==
    \E exclude_2020 \in BOOLEAN, lenient \in BOOLEAN,
       firsts \in [1..Len(sg_data.cols) -> 0..MaxNdiffs] :
        GetStationaryGuide(exclude_2020, firsts, lenient)
        /\ UNCHANGED <<pipeVars, evalVars, exogVars, gridVars, grangerVars,
                       aggVars, loopVars, nameVars,
                       fiscalVars>>

SpecGuide == InitGuide /\ [][NextGuide]_vars

\* The differencing loop of one column. The loop is sequential code: a pass
\* that can be made is made.
InitLoop ==
    /\ PipeIdle
    /\ tt = TTIdle
    /\ ExogIdle
    /\ GridIdle
    /\ GrangerIdle
    /\ GuideIdle
    /\ AggIdle
    /\ LoopInit
    /\ NameIdle
    /\ FiscalIdle

NextLoop ==
    LoopPass /\ UNCHANGED <<pipeVars, evalVars, exogVars, gridVars,
                            grangerVars, guideVars, aggVars, nameVars,
                            fiscalVars>>

SpecLoop == InitLoop /\ [][NextLoop]_vars /\ WF_vars(NextLoop)

\* aggregate_to_fiscal_year called on any Series of the model, and
\* get_avg_forecast_from_fits on any list of fits with any count.
InitAgg ==
    /\ PipeIdle
    /\ tt = TTIdle
    /\ ExogIdle
    /\ GridIdle
    /\ GrangerIdle
    /\ GuideIdle
    /\ AggInit
    /\ LoopIdle
    /\ NameIdle
    /\ FiscalIdle

NextAgg ==
    \/ \E data \in AggSeries, freq \in {"QS", "MS", "AS"} :
          AggregateToFiscalYear(data, freq)
          /\ UNCHANGED <<pipeVars, evalVars, exogVars, gridVars, grangerVars,
                         guideVars, loopVars, nameVars,
                       fiscalVars>>
    \/ \E max_fits \in 0..(MaxFits + 1) :
          GetAvgForecastFromFits(max_fits)
          /\ UNCHANGED <<pipeVars, evalVars, exogVars, gridVars, grangerVars,
                         guideVars, loopVars, nameVars,
                       fiscalVars>>

SpecAgg == InitAgg /\ [][NextAgg]_vars

\* One lookup of columns by name on any frame of two variables.
InitNames ==
    /\ PipeIdle
    /\ tt = TTIdle
    /\ ExogIdle
    /\ GridIdle
    /\ GrangerIdle
    /\ GuideIdle
    /\ AggIdle
    /\ LoopIdle
    /\ NameIdle
    /\ FiscalIdle

NextNames ==
    \/ \E f \in NameFrames :
          \E usecols \in UNION {[1..n -> Askable(f)] : n \in 1..2} :
              SubsetFeatures(f, usecols)
              /\ UNCHANGED <<pipeVars, evalVars, exogVars, gridVars,
                             grangerVars, guideVars, aggVars, loopVars,
                             fiscalVars>>
    \/ \E f \in NameFrames :
          \E col \in Askable(f) :
              TargetColumn(f, col)
              /\ UNCHANGED <<pipeVars, evalVars, exogVars, gridVars,
                             grangerVars, guideVars, aggVars, loopVars,
                             fiscalVars>>

SpecNames == InitNames /\ [][NextNames]_vars

\* The tax bases of one fiscal year, dated and aggregated.
NextFiscal ==
    \/ \E Y \in FiscalRowYears, Q \in SUBSET FiscalRowQuarters :
          Q # {} /\ GetAllTaxBases(Y, Q)
          /\ UNCHANGED <<pipeVars, evalVars, exogVars, gridVars,
                         grangerVars, guideVars, aggVars, loopVars, nameVars>>
    \/ \E freq \in {"QS", "MS"} :
          AggregateTaxBases(freq)
          /\ UNCHANGED <<pipeVars, evalVars, exogVars, gridVars,
                         grangerVars, guideVars, aggVars, loopVars, nameVars>>

InitFiscal == InitNames

SpecFiscal == InitFiscal /\ [][NextFiscal]_vars

----------------------------------------------------------------------------
(* Properties of the pipeline (specification Spec) *)

\* C1: round trip. After fit(table), inverse_transform(transform(table))
\* gives back the baseline, under the original column names, on every date
\* that transform kept; stated for every table the pipeline accepts, with
\* or without missing values. Violated: a baseline with a missing value
\* inside its range makes inverse_transform raise.
C1_RoundTrip ==
    (op = "inverse_transform" /\ hasX0 /\ asfreq(src) = X0_
        /\ arg.index # {})
    => /\ ret.kind = "table"
       /\ ret.table.cols = X0_.cols
       /\ \A i \in 1..Len(X0_.cols) : \A d \in arg.index :
             /\ d \in DOMAIN ret.table.val[i]
             /\ ret.table.val[i][d] = X0_.val[i][d]

\* C8: transform and inverse_transform called on a pipeline on which fit
\* was never called raise NotFittedError and return no table.
C8_NotFitted ==
    (op \in {"transform", "inverse_transform"} /\ ~fitCalled)
    => ret = Raised("NotFittedError")

C8_Witness ==
    /\ op = "inverse_transform"
    /\ ~fitCalled
    /\ arg.index # {}
    /\ ret.kind = "error"

\* The columns of the input of inverse_transform all name columns of the
\* baseline that the guide knows.
KnownInput ==
    /\ Len(arg.cols) > 0
    /\ \A i \in 1..Len(arg.cols) :
          HasCol(X0_, OrigCol(arg.cols[i])) /\ OrigCol(arg.cols[i]) \in DOMAIN guide_

\* C9: inverse_transform of a table that shares no date with the fitted
\* baseline raises the no-overlap error (a ValueError with the message "No
\* overlap between input and original datasets") and returns no values,
\* whatever the guide entries are.
C9_NoOverlap ==
    (op = "inverse_transform" /\ hasX0 /\ KnownInput
        /\ arg.index \cap X0_.index = {})
    => ret = Raised("ValueError: No overlap between input and original datasets")

C9_Witness ==
    /\ op = "inverse_transform"
    /\ hasX0
    /\ KnownInput
    /\ arg.index # {}
    /\ X0_.index # {}
    /\ arg.index \cap X0_.index = {}
    /\ guide_[ColX].ndiffs = MaxNdiffs
    /\ ret.kind = "error"

\* C10: fit(table) raises the unknown-column error (a ValueError with the
\* message "There are unknown columns in input data") when the table has a
\* column that is not a variable of the guide; otherwise it succeeds and
\* the baseline is the table on every quarter from its first to its last
\* date, with no value on the quarters the table lacks.
C10_Fit ==
    op = "fit" =>
        IF \E i \in 1..Len(arg.cols) : arg.cols[i] \notin DOMAIN guide_
        THEN ret = Raised("ValueError: There are unknown columns in input data")
        ELSE /\ ret = ReturnedSelf
             /\ hasX0
             /\ X0_.cols = arg.cols
             /\ X0_.index = Min(arg.index)..Max(arg.index)
             /\ X0_.val = arg.val

C10_Witness ==
    /\ op = "fit"
    /\ HasCol(arg, ColZ)
    /\ ret.kind = "error"

\* Column i of table X of raw features after the scaling and the
\* differences of its guide entry, over the quarters of X.
Differenced(X, i) ==
    LET e == guide_[X.cols[i]]
    IN diffN(asfreq(X).index,
             [d \in DOMAIN X.val[i] |-> Scale(e, X.val[i][d])],
             e.periods, e.ndiffs)

TransformReturned == op = "transform" /\ ret.kind = "table"

\* C15, as stated: transform drops exactly the rows that are all-NaN after
\* differencing; a row that still has a value in at least one column is
\* kept in the output.
C15_DropAllNaN ==
    TransformReturned =>
        ret.table.index =
            {d \in asfreq(arg).index :
                \E i \in 1..Len(arg.cols) : d \in DOMAIN Differenced(arg, i)}

\* C15, amended: transform drops exactly the rows that hold NaN in at least
\* one column after differencing; the rows it keeps are those with a value
\* in every column, with these values.
C15_DropAnyNaN ==
    TransformReturned =>
        /\ ret.table.index =
              {d \in asfreq(arg).index :
                  \A i \in 1..Len(arg.cols) : d \in DOMAIN Differenced(arg, i)}
        /\ \A i \in 1..Len(arg.cols) :
              ret.table.val[i] = Restrict(Differenced(arg, i), ret.table.index)

\* transform returned a table for an input in which, after differencing,
\* some row has a value in one column and NaN in another.
C15_Witness ==
    /\ TransformReturned
    /\ \E d \in asfreq(arg).index, i, j \in 1..Len(arg.cols) :
          /\ d \in DOMAIN Differenced(arg, i)
          /\ d \notin DOMAIN Differenced(arg, j)

----------------------------------------------------------------------------
(* Properties of the evaluator and the fitter (specification SpecEval) *)

\* C2: walk-forward evaluation never trains on the dates it scores: in
\* every split of test_train_var_model, whatever the number of rows and
\* n_splits, every date the VAR model is fitted on is strictly earlier than
\* every date it is scored on.
C2_NoLeakage ==
    \A k \in 1..Len(tt.splits) :
        \A a \in tt.splits[k].train : \A b \in tt.splits[k].test : a < b

C2_Witness ==
    /\ tt.pc = "returned"
    /\ Len(tt.splits) = MaxSplits
    /\ \A k \in 1..Len(tt.splits) :
          tt.splits[k].train # {} /\ tt.splits[k].test # {}

\* C7: the pipeline is read-only after fit. A call of fit_var_model or
\* test_train_var_model made with a fitted pipeline leaves its baseline and
\* its guide as they were before the call. Violated: both refit the
\* caller's pipeline on the features they are given.
C7_ReadOnly ==
    [][(hasX0 /\ op' \in {"fit_var_model", "test_train_var_model"})
        => (X0_' = X0_ /\ guide_' = guide_)]_vars

----------------------------------------------------------------------------
(* Properties of the selector (specification SpecExog) *)

\* C3: the selector returns exactly the drivers on the allow-list that, for
\* every target, cause the target at the threshold alpha
\* (p(D causes T) < alpha) and are not caused by it at the same threshold
\* (p(T causes D) >= alpha), whatever alpha is. Violated: the reverse test
\* compares with 0.05 whatever alpha is.
C3_ExogSelector ==
    exog_call.ret.kind = "list" =>
        Range(exog_call.ret.value) =
            {d \in Range(cbo_columns) :
                \A k \in 1..Len(exog_call.endog_cols) :
                    LET t == exog_call.endog_cols[k]
                    IN grangers[d][t] < alpha /\ grangers[t][d] >= alpha}

\* The names _run lets through for every target of the call.
PassedForAll(endog_cols) ==
    {n \in Names :
        \A k \in 1..Len(endog_cols) :
            n \in run(grangers, FirstColumn(endog_cols[k]), cbo_columns, alpha)}

\* C20: every name returned by get_possible_exog_variables is on the
\* allow-list cbo_columns, and a call in which a name outside the allow-list
\* has passed the tests for every target fails with an error instead of
\* returning it.
C20_AllowList ==
    /\ exog_call.ret.kind = "list" =>
          Range(exog_call.ret.value) \subseteq Range(cbo_columns)
    /\ (/\ exog_call.ret.kind # "none"
        /\ ~(PassedForAll(exog_call.endog_cols) \subseteq Range(cbo_columns)))
       => exog_call.ret.kind = "error"

\* A call failed on the name K_r, which passed the filter of _run by its
\* first token K and is not on the allow-list.
C20_Witness ==
    /\ exog_call.ret.kind = "error"
    /\ exog_call.ret.error = "ValueError: Error"
    /\ Len(exog_call.endog_cols) > 0
    /\ "K_r" \in PassedForAll(exog_call.endog_cols)
    /\ "K" \in Range(cbo_columns) /\ "K_r" \notin Range(cbo_columns)

----------------------------------------------------------------------------
(* Properties of the grid search (specification SpecGrid) *)

\* The candidates of a list of fits, in its order.
Ranking(fits) == [i \in 1..Len(fits) |-> Candidate(fits[i].kws)]

\* C4: when the evaluation of one candidate fails numerically, the grid
\* search leaves out that candidate only and still returns the ranked
\* results of the other candidates. Violated: the failure of any candidate
\* is raised by p.map and ends the whole search.
C4_FailureExcluded ==
    (/\ gs.pc \in {"raised", "returned"}
     /\ Len(gs.tasks) > 0
     /\ Len(gs.results) = Len(gs.tasks)
     /\ \E i \in 1..Len(gs.tasks) : gs.results[i].failed
     /\ \E i \in 1..Len(gs.tasks) : ~gs.results[i].failed)
    => /\ gs.ret.kind = "fits"
       /\ Range(Ranking(gs.ret.fits)) =
             {Candidate(kws(gs.param_names, gs.tasks[i])) :
                 i \in {j \in 1..Len(gs.tasks) : ~gs.results[j].failed}}

\* C5: the grid search returns its fits in ascending order of the target
\* MAPE, and two runs on the same arguments return the candidates in the
\* same order. Violated: with tied candidates the order follows the order
\* in which the process iterates the set of admissible exogenous variables,
\* which differs from run to run.
C5_SameRanking ==
    (CallOver /\ runs >= 1 /\ gret.kind = "fits")
    => /\ \A i \in 1..Len(gret.fits) : \A j \in i..Len(gret.fits) :
             gret.fits[i].target_mape <= gret.fits[j].target_mape
       /\ (runs >= 2 /\ first_ret.kind = "fits")
             => Ranking(gret.fits) = Ranking(first_ret.fits)

\* C6: the caller of the grid search never receives an empty result: it
\* gets a list with at least one candidate or an exception. Violated: when
\* the grid has no candidates the empty list is returned.
C6_NeverEmpty ==
    (CallOver /\ runs >= 1)
    => \/ gret.kind = "error"
       \/ gret.kind = "fits" /\ Len(gret.fits) > 0

\* The number of elements of the Cartesian product of the lists.
RECURSIVE ProductSize(_)
ProductSize(values) ==
    IF Len(values) = 0 THEN 1
    ELSE Len(Head(values)) * ProductSize(Tail(values))

\* The element of the product that takes value number ch[i] of list i.
Element(values, ch) == [i \in 1..Len(values) |-> values[i][ch[i]]]
Choices(values) ==
    {ch \in [1..Len(values) -> 1..MaxGridList] :
        \A i \in 1..Len(values) : ch[i] <= Len(values[i])}

\* C16: a grid search that returns has evaluated one candidate for every
\* element of the Cartesian product of the value lists and returns one
\* scored result for each: the number of candidates and the number of
\* results are the product of the list lengths.
C16_OnePerElement ==
    gs.pc = "returned" =>
        /\ Len(gs.tasks) = ProductSize(gs.values)
        /\ \A ch \in Choices(gs.values) :
              \E t \in 1..Len(gs.tasks) : gs.tasks[t] = Element(gs.values, ch)
        /\ Len(gs.results) = Len(gs.tasks)
        /\ Len(gs.ret.fits) = ProductSize(gs.values)
        /\ \A t \in 1..Len(gs.tasks) :
              LET k == kws(gs.param_names, gs.tasks[t])
              IN /\ Cardinality({j \in 1..Len(gs.ret.fits) :
                                    gs.ret.fits[j].kws = k})
                       = Cardinality({u \in 1..Len(gs.tasks) :
                                    kws(gs.param_names, gs.tasks[u]) = k})
                 /\ \A j \in 1..Len(gs.ret.fits) :
                       gs.ret.fits[j].kws = k =>
                           gs.ret.fits[j].target_mape = gs.results[t].mape

\* A search over 2 orders, 3 exogenous subsets and 1 endog set returned 6
\* results.
C16_Witness ==
    /\ gs.pc = "returned"
    /\ \E i, j, k \in 1..Len(gs.values) :
          /\ gs.param_names[i] = "order" /\ Len(gs.values[i]) = 2
          /\ gs.param_names[j] = "exog_cols" /\ Len(gs.values[j]) = 3
          /\ gs.param_names[k] = "endog_cols" /\ Len(gs.values[k]) = 1
    /\ Len(gs.ret.fits) = 6

\* C17: a grid that lacks one of the keys endog_cols, order, max_fit_date
\* or has a key outside these and exog_cols, model_quarters is rejected
\* with an error before any candidate is evaluated: no task is made, no
\* candidate is evaluated and no result is returned.
C17_GridRejected ==
    LET names == Range(gs.param_names)
    IN (/\ gs.pc # "idle"
        /\ \/ \E r \in {"endog_cols", "order", "max_fit_date"} : r \notin names
           \/ \E n \in names :
                 n \notin {"endog_cols", "order", "max_fit_date",
                           "exog_cols", "model_quarters"})
       => /\ gs.pc = "raised"
          /\ gs.ret.kind = "error"
          /\ gs.ret.fits = <<>>
          /\ gs.tasks = <<>>
          /\ gs.results = <<>>
          /\ rpm.pc = "idle" => (gret = gs.ret /\ mape_of = <<>>)

\* A grid with a key outside the required and the optional ones has been
\* rejected.
C17_Witness ==
    /\ gs.pc = "raised"
    /\ gs.ret.error = "ValueError: Extra grid parameters provided"
    /\ "trend" \in Range(gs.param_names)

----------------------------------------------------------------------------
(* Properties of the Granger matrix (specification SpecGranger) *)

GrangerCalled == gc_call.test # ""

\* The cell of the returned matrix in the row of variable r and the column
\* of variable c.
RowOf(r) == CHOOSE lab \in DOMAIN gc_call.ret : lab.name = r
Cell(r, c) ==
    LET row == gc_call.ret[RowOf(r)]
    IN row[CHOOSE lab \in DOMAIN row : lab.name = c]

\* The least rounded p-value, over the lags of the call and the statistics
\* of S, of the test that cause Granger-causes effect.
MinP(cause, effect, S) ==
    Min({round4(gc_tests[<<effect, cause>>][l][t]) :
            l \in 1..gc_call.maxlag, t \in S})

\* C11, as stated: in the returned matrix the cell in the row of a target
\* and the column of a driver is the minimum p-value over the lags
\* 1..maxlag of the test that the column variable causes the row variable,
\* identical pairs included.
C11_RowTarget ==
    GrangerCalled =>
        \A r, c \in GrangerNames : Cell(r, c) = MinP(c, r, {gc_call.test})

\* C11, amended: the rows of the returned matrix are the drivers and its
\* columns the targets; the cell of row r and column c is the minimum
\* p-value over the lags 1..maxlag of the test that r causes c, identical
\* pairs included.
C11_RowDriver ==
    GrangerCalled =>
        \A r, c \in GrangerNames : Cell(r, c) = MinP(r, c, {gc_call.test})

\* A matrix was returned whose two directions between x and y differ.
C11_Witness ==
    /\ GrangerCalled
    /\ MinP(GrangerColumns[1], GrangerColumns[2], {gc_call.test})
           # MinP(GrangerColumns[2], GrangerColumns[1], {gc_call.test})

\* C12, as stated: every cell is the minimum p-value over all four
\* statistics and every lag 1..L.
C12_FourTests ==
    GrangerCalled =>
        \A r, c \in GrangerNames : Cell(r, c) = MinP(r, c, Tests)

\* C12, amended: every cell is a p-value of the one statistic named by the
\* argument test, at some lag of 1..L, and no lag of 1..L gives that
\* statistic a smaller p-value.
C12_OneTest ==
    GrangerCalled =>
        \A r, c \in GrangerNames :
            LET P(l) == round4(gc_tests[<<c, r>>][l][gc_call.test])
            IN /\ \E l \in 1..gc_call.maxlag : Cell(r, c) = P(l)
               /\ \A l \in 1..gc_call.maxlag : Cell(r, c) <= P(l)

\* A matrix was returned for which another statistic has, at a lag of the
\* call, a smaller p-value than the statistic of the call.
C12_Witness ==
    /\ GrangerCalled
    /\ \E r, c \in GrangerNames :
          MinP(r, c, Tests) < MinP(r, c, {gc_call.test})

----------------------------------------------------------------------------
(* Properties of the builder of the guide (specification SpecGuide) *)

GuideWasReturned == sg_call.ret.kind = "guide"

C14_PositiveNorm ==
    /\ GuideWasReturned =>
          \A i \in 1..Len(sg_call.ret.guide) :
              LET e == sg_call.ret.guide[i]
              IN /\ e.norm > 0
                 /\ e.loggable => e.norm = 1
    /\ sg_call.ret.kind = "error" =>
          LET nm == norm_of(sg_data.val[sg_call.ret.col])
          IN ~nm.nan /\ nm.v > 0

----------------------------------------------------------------------------
(* Properties of the aggregation (specification SpecAgg) *)

\* Date d lies in the quarters Q3(Y - 1)..Q2(Y).
InFiscalYear(d, Y) ==
    \/ Year(d) = Y - 1 /\ Quarter(d) \in {3, 4}
    \/ Year(d) = Y /\ Quarter(d) \in {1, 2}
FiscalYears == {Year(d) : d \in 0..(AggEnd + 4)}

\* The fiscal years of Series S and the sum of its values in fiscal year Y.
FiscalYearsOf(S) == {Y \in FiscalYears : \E d \in S.index : InFiscalYear(d, Y)}
FiscalYearSum(S, Y) ==
    SumOf(Restrict(S.val, {d \in S.index : InFiscalYear(d, Y)}))

\* C18: aggregate_to_fiscal_year assigns a quarter-start date to fiscal
\* year Y exactly when it lies in Q3(Y-1)..Q2(Y), and returns for every
\* fiscal year the sum of the values assigned to it.
C18_FiscalYear ==
    agg_call.ret.kind = "frame" =>
        /\ DOMAIN agg_call.ret.sums = FiscalYearsOf(agg_call.data)
        /\ \A Y \in DOMAIN agg_call.ret.sums :
              agg_call.ret.sums[Y] = FiscalYearSum(agg_call.data, Y)

\* The values 1, 1, 1, 1 at Q3 2020..Q2 2021 gave fiscal year 2021 = 4.
C18_Witness ==
    /\ agg_call.ret.kind = "frame"
    /\ agg_call.data.index = 10..13
    /\ \A d \in 10..13 :
          /\ d \in DOMAIN agg_call.data.val /\ agg_call.data.val[d] = 1
          /\ Year(d) = IF d <= 11 THEN 2020 ELSE 2021
          /\ Quarter(d) = IF d <= 11 THEN d - 7 ELSE d - 11
    /\ DOMAIN agg_call.ret.sums = {2021}
    /\ agg_call.ret.sums[2021] = 4

\* C19: a call of get_avg_forecast_from_fits with count K that returns has
\* used the first K fits of the list, in order: it returns these K
\* parameter sets, and for every fiscal year the mean, over those of the K
\* forecasts that have the year, of their sums over the fiscal year.
C19_FirstK ==
    avg_call.ret.kind = "avg" =>
        LET K == avg_call.max_fits
            have(Y) == {i \in 1..K : Y \in FiscalYearsOf(avg_fits[i].forecast)}
        IN /\ K \in 1..Len(avg_fits)
           /\ avg_call.ret.all_params = [i \in 1..K |-> RankedFit(avg_fits, i)]
           /\ DOMAIN avg_call.ret.avg = {Y \in FiscalYears : have(Y) # {}}
           /\ \A Y \in DOMAIN avg_call.ret.avg :
                 /\ avg_call.ret.avg[Y].count = Cardinality(have(Y))
                 /\ avg_call.ret.avg[Y].total =
                       SumOf([i \in have(Y) |->
                                 FiscalYearSum(avg_fits[i].forecast, Y)])

\* The call returned the average of the first two of three fits whose
\* forecasts all differ.
C19_Witness ==
    /\ avg_call.ret.kind = "avg"
    /\ avg_call.max_fits = 2
    /\ Len(avg_fits) = 3
    /\ \A i, j \in 1..3 : i # j => avg_fits[i].forecast # avg_fits[j].forecast

----------------------------------------------------------------------------
(* Properties of the score (specification SpecScore) *)

\* The pairs (split, date) of column c that hold a forecast and an actual
\* value, and the error of each.
ScoredCells(c) ==
    {<<k, d>> \in (1..Len(tt.splits)) \X (0..ScoreEnd) :
        /\ d \in DOMAIN tt.splits[k].forecast.val[ColPos(tt.splits[k].forecast, c)]
        /\ d \in DOMAIN tt.splits[k].actual.val[ColPos(tt.splits[k].actual, c)]}
CellError(c, kd) ==
    abs_error(guide_[c].loggable,
              tt.splits[kd[1]].forecast.val[ColPos(tt.splits[kd[1]].forecast, c)][kd[2]],
              tt.splits[kd[1]].actual.val[ColPos(tt.splits[kd[1]].actual, c)][kd[2]])

\* C21: the score test_train_var_model returns is, for every column, the
\* mean absolute percentage error over the test rows of all splits taken
\* together: every scored cell of every split has the same weight.
C21_ConcatMape ==
    tt.pc = "returned" =>
        \A c \in DOMAIN tt.metrics.mape :
            tt.metrics.mape[c] = mean([kd \in ScoredCells(c) |-> CellError(c, kd)])

\* The call returned a score that differs from the mean of the scores of
\* its splits.
C21_Witness ==
    /\ tt.pc = "returned"
    /\ Len(tt.splits) >= 2
    /\ \E c \in DOMAIN tt.metrics.mape :
          /\ tt.metrics.mape[c].kind = "num"
          /\ tt.metrics.mape[c] # combined_mape_mean_of_splits(guide_, tt.splits)[c]

----------------------------------------------------------------------------
(* Properties of run_possible_models (specification SpecGrid) *)

\* The non-empty lists of exogenous columns of the grid of the running
\* search, as sets.
ExogSets ==
    LET k == CHOOSE i \in 1..Len(gs.param_names) : gs.param_names[i] = "exog_cols"
    IN {Range(gs.values[k][j]) : j \in 1..Len(gs.values[k])} \ {{}}

\* C22: for every combination of other endogenous columns that
\* run_possible_models searches with max_exog > 0, the exogenous sets of the
\* grid are all subsets of the admissible variables of that combination of
\* every size from 1 to min(max_exog, number admissible). Violated: the
\* first combination sets max_exog to 0, and every later one is searched
\* with the empty set only.
C22_EveryCombination ==
    (rpm.pc = "search" /\ inp.max_exog > 0) =>
        LET admissible == Range(exog_call.ret.value)
            n == Min({inp.max_exog, Cardinality(admissible)})
        IN ExogSets = {S \in SUBSET admissible : Cardinality(S) \in 1..n}

----------------------------------------------------------------------------
(* Properties of the splits (specification SpecScore) *)

\* C23: in one call of test_train_var_model the test blocks of the splits,
\* in the order the loop has processed them, are in strictly increasing time
\* order: every date of an earlier block is before every date of a later
\* block, so the blocks are pairwise disjoint.
C23_TestBlocksOrdered ==
    \A k, l \in 1..Len(tt.splits) :
        k < l => \A a \in tt.splits[k].test : \A b \in tt.splits[l].test : a < b

\* The call returned after three splits with test blocks of two quarters.
C23_Witness ==
    /\ tt.pc = "returned"
    /\ Len(tt.splits) = 3
    /\ \A k \in 1..3 : Cardinality(tt.splits[k].test) = 2

----------------------------------------------------------------------------
(* Properties of the pipeline's calls (specification Spec) *)

----------------------------------------------------------------------------
(* Properties of the differencing loop (specification SpecLoop) *)

LoopDone == dl.pc \in {"returned", "raised"}

\* C25: the differencing loop of a column terminates, and it ends in one of
\* three ways: the feature has been differenced at least once and its last
\* test passed; or the column is a tax base ("Base") that has been
\* differenced once; or adfuller raised an error, which it does whenever
\* fewer than its minimum of observations remain. It never returns an entry
\* for a feature that failed its last test, other than a tax base at its cap.
C25_Terminates ==
    /\ <>LoopDone
    /\ [](dl.pc = "returned" =>
            \/ dl.last = "yes" /\ dl.ndiffs >= 1
            \/ dl.ndiffs = 1 /\ InName("Base", dl.col))
    /\ [](dl.pc = "raised" => dl.error \notin {"", "yes", "no"})
    /\ []((dl.pc = "while" /\ Cardinality(dl.F.index) < AdfMinObs)
             => [](dl.pc # "returned"))

\* A feature that never tests as stationary was differenced until too few
\* observations remained, and adfuller raised.
C25_Witness ==
    /\ dl.pc = "raised"
    /\ dl.first = 0
    /\ dl.ndiffs >= 3
    /\ dl.error = "ValueError: sample size is too short"
    /\ Cardinality(dl.F.index) = AdfMinObs - 1

----------------------------------------------------------------------------
(* Specification Spec: a fit that fails.                                   *)

\* C26: when fit raises because the table has a column unknown to the
\* guide, the pipeline's state is as before the call (the fitted flag and
\* the baseline are unchanged), so that a pipeline that was unfitted is
\* still unfitted: transform and inverse_transform raise NotFittedError
\* exactly when the fitted flag is unset.
C26_FailedFitLeavesUnfitted ==
    [][(op' = "fit" /\ ret'.kind = "error") =>
           (hasX0' = hasX0 /\ X0_' = X0_)]_vars

----------------------------------------------------------------------------
(* Specification SpecNames: lookup of columns by name *)

\* The label the frame of the lookup holds for the variable name.
ColumnOf(name) ==
    lookup.columns[CHOOSE k \in 1..2 : lookup.variables[k] = name]

\* C27: a lookup by name is exact. Whatever the names of the variables,
\* subset_features (endswith matching) and the lookup of the target in the
\* Granger matrix (contains matching) return, for every name asked that
\* the frame holds, the label of the variable with that very name, also
\* when the name of one variable ends the other's or lies inside it.
C27_ExactLookup ==
    (/\ lookup.op # "none"
     /\ \A k \in 1..Len(lookup.usecols) :
           lookup.usecols[k] \in Range(lookup.variables))
    => /\ lookup.ret.kind = "cols"
       /\ Len(lookup.ret.cols) = Len(lookup.usecols)
       /\ \A k \in 1..Len(lookup.usecols) :
             lookup.ret.cols[k] = ColumnOf(lookup.usecols[k])

----------------------------------------------------------------------------
(* Specification SpecFiscal: fiscal quarters and fiscal years *)

\* The rows of the call whose fiscal quarter is one of 1..4.
FiscalRows == {r \in fq_call.rows : r[2] \in 1..4}

\* C30: the date date_from_fiscal_quarter gives quarter q in 1..4 of
\* fiscal year Y is assigned to fiscal year Y by aggregate_to_fiscal_year
\* (the only group of the rows of year Y is Y, and it counts every such
\* row), and different quarters of Y get different dates; a row with
\* another quarter number gets no date.
C30_FiscalQuarterAgrees ==
    /\ fq_call.pc # "idle" =>
          /\ \A r \in fq_call.rows : fq_call.Date[r].nan <=> r \notin FiscalRows
          /\ \A r1, r2 \in FiscalRows :
                fq_call.Date[r1] = fq_call.Date[r2] => r1 = r2
          /\ Cardinality(fq_call.data.index) = Cardinality(FiscalRows)
    /\ (fq_call.pc = "aggregated" /\ FiscalRows # {}) =>
          /\ fq_call.ret.kind = "frame"
          /\ DOMAIN fq_call.ret.sums = {r[1] : r \in FiscalRows}
          /\ \A r \in FiscalRows :
                fq_call.ret.sums[r[1]] = Cardinality(FiscalRows)

\* The four quarters of fiscal year 2020 were dated and summed to 4 under
\* the year 2020.
C30_Witness ==
    /\ fq_call.pc = "aggregated"
    /\ fq_call.freq = "QS"
    /\ FiscalRows = {<<2020, q>> : q \in 1..4}
    /\ fq_call.data.index = 6..9
    /\ fq_call.ret.sums = [Y \in {2020} |-> 4]

----------------------------------------------------------------------------
(* Specification SpecEval: the dates of fit_var_model *)

\* The dates of the scaled history of the last call and the dates of its
\* forecast.
HistoricalDates == transform(TRUE, guide_, arg).table.index
ForecastDates == src.index \ HistoricalDates

\* C28: whatever plan_start_year and the last date of the history, the
\* table fit_var_model returns runs over consecutive quarters, every date
\* of the forecast is later than every date of the history, and the
\* forecast begins on the quarter right after the last one of the history.
C28_ForecastFollowsHistory ==
    (op = "fit_var_model" /\ ret.kind = "table") =>
        /\ ret.table.index =
              Min(HistoricalDates \cup ForecastDates)..Max(HistoricalDates \cup ForecastDates)
        /\ \A f \in ForecastDates, h \in HistoricalDates : f > h
        /\ Min(ForecastDates) = Max(HistoricalDates) + 1

----------------------------------------------------------------------------
(* Specification SpecScore: the rows test_train_var_model uses *)

\* C29: test_train_var_model uses no row dated after max_fit_date: the
\* scaled features it splits, and in every split the training block, the
\* test block, the forecast and the actual values, hold only dates on or
\* before max_fit_date.
C29_NothingAfterMaxFitDate ==
    tt.pc # "idle" =>
        /\ \A d \in tt.scaled_features.index : d <= tt.max_fit_date
        /\ \A k \in 1..Len(tt.splits) :
              \A d \in tt.splits[k].train \cup tt.splits[k].test
                       \cup tt.splits[k].forecast.index
                       \cup tt.splits[k].actual.index :
                  d <= tt.max_fit_date

\* The features ran past max_fit_date and the last split tested the row
\* of max_fit_date itself.
C29_Witness ==
    /\ tt.pc = "returned"
    /\ \E d \in tt.X.index : d > tt.max_fit_date
    /\ tt.max_fit_date \in tt.splits[Len(tt.splits)].test

====
